---- MODULE Spec2Model ----
(***************************************************************************)
(* A model of proctor's shared infrastructure: the completion-invocation   *)
(* client of proctor/utils.py (call_llm, call_llm_async, call_llm_stream,   *)
(* call_llm_async_stream), the configuration resolver of proctor/config.py, *)
(* PromptTechnique.execute and CompositeTechnique of proctor/base.py, and   *)
(* the technique registry of proctor/__init__.py.                           *)
(*                                                                         *)
(* Spec          one invocation at a time of the four call_llm* functions   *)
(*               against a transport whose outcome the environment picks.   *)
(* SpecPipeline  CompositeTechnique.generate_prompt over a list of stages.  *)
(* SpecExecute   PromptTechnique.execute: generate_prompt, then call_llm.   *)
(* SpecRegistry  get_technique and list_techniques, one caller.             *)
(* SpecRegistryThreads  the same with two concurrent callers.               *)
(* SpecConfig    configuration resolutions with dicts as shared objects.    *)
(* SpecLive      Spec with the transport and the sleeps weakly fair.        *)
(* SpecNest      three groupings of one pipeline of CompositeTechniques.    *)
(* SpecTasks     call_llm_async invocations interleaved on one event loop.  *)
(***************************************************************************)
EXTENDS Integers, Sequences, FiniteSets, TLC

VARIABLES
    environ,            \* os.environ, the two variables config.py reads
    DEFAULT_LLM_CONFIG, \* config.py's module-level dict
    pc,                 \* position of the invocation
    config_override,    \* argument config_override
    mode,               \* which of the four functions is running
    prompt,             \* argument prompt
    system_prompt,      \* argument system_prompt
    max_retries,        \* argument max_retries
    config,             \* local config (after get_llm_config and update)
    messages,           \* local messages
    attempts,           \* local attempts
    last_error,         \* local last_error
    calls,              \* history: every litellm.completion / acompletion call
    outcomes,           \* history: what each transport call (or frame read) did
    sleeps,             \* history: every time.sleep / asyncio.sleep
    result,             \* what the invocation returned or raised
    frames,             \* stream modes: frames read from the transport so far
    chunks,             \* stream modes: chunks yielded to the consumer so far
    techniques,         \* CompositeTechnique.techniques
    kwargs,             \* generate_prompt's **kwargs
    input_text,         \* generate_prompt's input_text
    stage,              \* index of the next stage of the for loop
    cur,                \* local prompt of CompositeTechnique.generate_prompt
    stageLog,           \* history: every stage call <<technique, input, kwargs>>
    pipeResult,         \* what generate_prompt returned or raised
    _TECHNIQUE_INSTANCES, \* __init__.py's module-level cache: name -> instance
    heap,               \* every technique instance created so far
    threads,            \* each calling thread's position in the registry's functions
    handedOut,          \* history: every <<name, instance>> get_technique returned
    exec,               \* PromptTechnique.execute: its arguments, position and outcome
    dicts,              \* the dict objects configuration resolutions created, by reference
    lastRef,            \* the reference the latest resolution returned
    nest,               \* three groupings of a pipeline and what each produced
    tasks               \* each call_llm_async task on the event loop: its locals and position

clientVars == <<pc, config_override, mode, prompt, system_prompt, max_retries, config, messages,
                attempts, last_error, calls, outcomes, sleeps, result, frames, chunks>>
envVars == <<environ, DEFAULT_LLM_CONFIG>>
pipeVars == <<techniques, kwargs, input_text, stage, cur, stageLog, pipeResult>>
regVars == <<_TECHNIQUE_INSTANCES, heap, threads, handedOut>>
execVars == <<exec>>
confVars == <<dicts, lastRef>>
nestVars == <<nest>>
taskVars == <<tasks>>
vars == <<envVars, clientVars, pipeVars, regVars, execVars, confVars, nestVars, taskVars>>

----------------------------------------------------------------------------
(* Bounds *)

\* max_retries ranges over -1 .. MaxRetriesBound
MaxRetriesBound == 2
\* a stream delivers at most MaxFrames frames
MaxFrames == 2
\* a pipeline has at most MaxStages stages
MaxStages == 3
\* callers hold at most MaxConfigs resolved configurations at a time
MaxConfigs == 2

----------------------------------------------------------------------------
(* Python values *)

\* Python's None, and a variable that is not set in os.environ
NoneVal == "<None>"
Unset == "<unset>"

\* A prompt argument: a str, or a value of another type
Prompts == { [type |-> "str", value |-> "Test prompt"],
             [type |-> "str", value |-> ""],
             [type |-> "int", value |-> "123"],
             [type |-> "NoneType", value |-> NoneVal] }

\* bool(p) for the values of Prompts
Truthy(p) ==
    CASE p.type = "str" -> p.value # ""
      [] p.type = "int" -> p.value # "0"
      [] OTHER -> FALSE

\* isinstance(p, str)
IsStrUnchecked(p) == TRUE
IsStr(p) == p.type = "str"

\* bool(v) of a configuration or environment value (a str or None)
TruthyStr(v) == v # "" /\ v # NoneVal /\ v # Unset

----------------------------------------------------------------------------
(* proctor/config.py *)

\* DEFAULT_LLM_CONFIG as built at import, when OPENROUTER_API_KEY held k
DefaultConfigAtImport(k) ==
    [ model       |-> "openai/gpt-4o",
      api_base    |-> "https://openrouter.ai/api/v1",
      api_key     |-> IF k = Unset THEN "" ELSE k,
      max_tokens  |-> "1000",
      temperature |-> "0.7" ]

\* dict.update: the keys of o override, the others are kept
DictUpdateKeepOld(c, o) ==
    [k \in DOMAIN c \cup DOMAIN o |-> IF k \in DOMAIN c THEN c[k] ELSE o[k]]
DictUpdate(c, o) ==
    [k \in DOMAIN c \cup DOMAIN o |-> IF k \in DOMAIN o THEN o[k] ELSE c[k]]

\* get_llm_config(): a copy of the default, then the environment's values
get_llm_config ==
    LET c0 == DEFAULT_LLM_CONFIG
        c1 == IF TruthyStr(environ["OPENROUTER_API_KEY"])
              THEN [c0 EXCEPT !["api_key"] = environ["OPENROUTER_API_KEY"]]
              ELSE c0
        c2 == IF TruthyStr(environ["OPENROUTER_MODEL"])
              THEN [c1 EXCEPT !["model"] = environ["OPENROUTER_MODEL"]]
              ELSE c1
    IN c2

\* The values OPENROUTER_API_KEY and OPENROUTER_MODEL take
EnvKeys == {Unset, "", "env-key"}
EnvModels == {Unset, "env-model"}

\* The config_override arguments tried: None, {}, and sparse dicts
NoOverride == [k \in {} |-> ""]
Overrides ==
    { NoOverride,
      [api_key |-> "call-key"],
      [api_key |-> ""],
      [api_key |-> NoneVal],
      [api_base |-> "https://api.test.com"],
      [model |-> "test-model", max_tokens |-> "50"] }
\* A config_override argument: None, or one of the dicts
OverrideArgs == { [isNone |-> TRUE, dict |-> NoOverride] }
                \cup { [isNone |-> FALSE, dict |-> o] : o \in Overrides }

\* bool(config_override): None and {} are falsy
TruthyDict(a) == ~a.isNone /\ DOMAIN a.dict # {}

----------------------------------------------------------------------------
(* litellm.exceptions, as imported by proctor/utils.py *)

\* The direct base class, within this set, of each exception the transport raises
ExceptionBase ==
    [ RateLimitError             |-> "Exception",
      BadRequestError            |-> "Exception",
      ContextWindowExceededError |-> "BadRequestError",
      ContentPolicyViolationError |-> "BadRequestError",
      ServiceUnavailableError    |-> "Exception",
      OpenAIError                |-> "Exception",
      Timeout                    |-> "Exception",
      AuthenticationError        |-> "Exception",
      LLMError                   |-> "Exception",
      Exception                  |-> "Exception" ]

\* What litellm.completion / acompletion may raise
TransportErrors == { "RateLimitError", "BadRequestError", "ContextWindowExceededError",
                     "Timeout", "AuthenticationError" }

\* What reading a frame of a stream may raise
StreamErrors == { "ServiceUnavailableError", "Timeout" }

\* isinstance(e, cls) for an exception e of class c
IsInstance(c, cls) ==
    \/ c = cls
    \/ ExceptionBase[c] = cls
    \/ cls = "Exception"

\* The except tuple of call_llm
SyncRetryable == { "RateLimitError", "BadRequestError", "OpenAIError",
                   "ServiceUnavailableError" }

\* The except tuple of call_llm_async
AsyncRetryable == SyncRetryable \cup {"Timeout"}

\* Whether the first except clause of mode m catches an exception of class c
CaughtAsRetryable(m, c) ==
    \E cls \in (IF m = "call_llm" THEN SyncRetryable ELSE AsyncRetryable) :
        IsInstance(c, cls)

----------------------------------------------------------------------------
(* proctor/utils.py: the invocation client *)

Modes == {"call_llm", "call_llm_async", "call_llm_stream", "call_llm_async_stream"}
StreamModes == {"call_llm_stream", "call_llm_async_stream"}
AsyncModes == {"call_llm_async", "call_llm_async_stream"}

\* The system_prompt arguments tried
SystemPrompts == {NoneVal, "You are terse"}

\* What an invocation returned or raised.  An LLMError's message is a format
\* string (text) with the values interpolated into it (n, cause).
NoResult == [kind |-> "none", text |-> "", n |-> 0, cause |-> NoneVal, value |-> NoneVal]
Returned(v) == [NoResult EXCEPT !.kind = "return", !.value = v]
StopIteration == [NoResult EXCEPT !.kind = "StopIteration"]
ValueError == [NoResult EXCEPT !.kind = "ValueError",
                               !.text = "Prompt must be a non-empty string"]
MissingKeyError == [NoResult EXCEPT !.kind = "LLMError", !.text = "Missing API key"]
UnknownError == [NoResult EXCEPT !.kind = "LLMError",
                                 !.text = "Unknown error occurred when calling LLM"]
NonRetryableErrorEarlier(e) == [NoResult EXCEPT !.kind = "LLMError",
                                                !.text = "Error calling LLM: {e}",
                                                !.cause = last_error]
NonRetryableError(e) == [NoResult EXCEPT !.kind = "LLMError",
                                         !.text = "Error calling LLM: {e}", !.cause = e]
ExhaustedErrorAttempts(n, e) == [NoResult EXCEPT !.kind = "LLMError",
                                                 !.text = "Error after {n} retries: {e}",
                                                 !.n = n + 1, !.cause = e]
ExhaustedError(n, e) == [NoResult EXCEPT !.kind = "LLMError",
                                         !.text = "Error after {n} retries: {e}",
                                         !.n = n, !.cause = e]
StreamingError(e) == [NoResult EXCEPT !.kind = "LLMError",
                                      !.text = "Error during streaming: {e}", !.cause = e]

\* str(e) of the LLMError the response check raises inside the try block
UnexpectedFormat == "Unexpected response format from LLM"

\* not config.get("api_key")
MissingKeyOnlyEmpty(cfg) == cfg["api_key"] = ""
MissingKey(cfg) == ~TruthyStr(cfg["api_key"])

\* "openrouter.ai" in api_base
HasOpenRouter(base) == base = "https://openrouter.ai/api/v1"

\* The messages list: the system message when system_prompt is truthy, then the user's
BuildMessages(sp, p) ==
    (IF TruthyStr(sp) THEN <<[role |-> "system", content |-> sp]>> ELSE <<>>)
    \o <<[role |-> "user", content |-> p.value]>>

\* The keyword arguments of the litellm.completion / acompletion call of mode m
CompletionCall(m, cfg, msgs) ==
    [ fn          |-> IF m \in AsyncModes THEN "acompletion" ELSE "completion",
      model       |-> cfg["model"],
      messages    |-> msgs,
      api_base    |-> cfg["api_base"],
      api_key     |-> cfg["api_key"],
      max_tokens  |-> cfg["max_tokens"],
      temperature |-> cfg["temperature"],
      stream      |-> m \in StreamModes,
      custom_llm_provider |-> IF HasOpenRouter(cfg["api_base"]) THEN "openrouter"
                              ELSE NoneVal ]

\* The responses a transport call returns in the non-stream modes: choices is
\* a list of at most one choice, whose message is None or has a content
Message(c) == [isNone |-> FALSE, content |-> c]
NoMessage == [isNone |-> TRUE, content |-> NoneVal]
Responses == { [choices |-> <<>>],
               [choices |-> <<[message |-> NoMessage]>>],
               [choices |-> <<[message |-> Message("Test response")]>>],
               [choices |-> <<[message |-> Message("")]>>],
               [choices |-> <<[message |-> Message(NoneVal)]>>] }

\* What one transport call did: raised an exception of class c, returned
\* response r, or returned a stream
NoResponse == [choices |-> <<>>]
Raised(c) == [kind |-> "raise", exc |-> c, response |-> NoResponse]
Responded(r) == [kind |-> "response", exc |-> NoneVal, response |-> r]
Streamed == [kind |-> "stream", exc |-> NoneVal, response |-> NoResponse]

\* response.choices and response.choices[0].message
ResponseOk(r) == r.choices # <<>> /\ ~r.choices[1].message.isNone

\* The frames a stream delivers: no choice, or a delta with a content
Frames == { [choices |-> <<>>],
            [choices |-> <<[delta |-> [content |-> "Hel"]]>>],
            [choices |-> <<[delta |-> [content |-> "lo"]]>>],
            [choices |-> <<[delta |-> [content |-> ""]]>>],
            [choices |-> <<[delta |-> [content |-> NoneVal]]>>] }

\* chunk.choices and chunk.choices[0].delta.content
FrameHasChoice(f) == f.choices # <<>>
FrameHasContent(f) == f.choices # <<>> /\ TruthyStr(f.choices[1].delta.content)

\* The backoff delay after the attempts-th failure
RetryDelayFromOne(a) == 2 ^ (a - 1)
RetryDelay(a) == 2 ^ a

\* The while condition of the retry loop
LoopConditionAlways(a, mr) == TRUE
LoopCondition(a, mr) == a <= mr

\* The check made after a retryable failure: sleep and retry, or break
MayRetryOffByOne(a, mr) == a < mr
MayRetry(a, mr) == a <= mr

\* The state of the client when no invocation is in progress
InitClient ==
    /\ pc = "idle"
    /\ config_override = [isNone |-> TRUE, dict |-> NoOverride]
    /\ mode = "call_llm"
    /\ prompt = [type |-> "NoneType", value |-> NoneVal]
    /\ system_prompt = NoneVal
    /\ max_retries = 0
    /\ config = NoOverride
    /\ messages = <<>>
    /\ attempts = 0
    /\ last_error = NoneVal
    /\ calls = <<>>
    /\ outcomes = <<>>
    /\ sleeps = <<>>
    /\ result = NoResult
    /\ frames = <<>>
    /\ chunks = <<>>

TerminalPcs == {"returned", "raised", "closed"}

\* The start of a function body: validation, configuration, messages, and for
\* the non-stream modes the first evaluation of the while condition
Enter(m, p, sp, ov, mr) ==
    /\ attempts' = 0
    /\ last_error' = NoneVal
    /\ IF ~Truthy(p) \/ ~IsStr(p)
       THEN /\ pc' = "raised"
            /\ result' = ValueError
            /\ config' = NoOverride
            /\ messages' = <<>>
       ELSE LET cfg == IF TruthyDict(ov) THEN DictUpdate(get_llm_config, ov.dict)
                       ELSE get_llm_config
            IN /\ config' = cfg
               /\ IF MissingKey(cfg)
                  THEN /\ pc' = "raised"
                       /\ result' = MissingKeyError
                       /\ messages' = <<>>
                  ELSE /\ messages' = BuildMessages(sp, p)
                       /\ IF m \in StreamModes \/ LoopCondition(0, mr)
                          THEN pc' = "request" /\ result' = NoResult
                          ELSE pc' = "raised" /\ result' = UnknownError

\* A call of one of the four functions.  The two stream functions are
\* generator functions: the call returns the generator and runs nothing.
Call(m, p, sp, ov, mr) ==
    /\ pc = "idle"
    /\ mode' = m
    /\ prompt' = p
    /\ system_prompt' = sp
    /\ max_retries' = mr
    /\ config_override' = ov
    /\ calls' = <<>>
    /\ outcomes' = <<>>
    /\ sleeps' = <<>>
    /\ frames' = <<>>
    /\ chunks' = <<>>
    /\ IF m \in StreamModes
       THEN /\ pc' = "created"
            /\ result' = NoResult
            /\ config' = NoOverride
            /\ messages' = <<>>
            /\ attempts' = 0
            /\ last_error' = NoneVal
       ELSE Enter(m, p, sp, ov, mr)

\* A caller outside the library calls one of the four functions
Invoke(m, p, sp, ov, mr) ==
    /\ Call(m, p, sp, ov, mr)
    /\ UNCHANGED <<envVars, pipeVars, regVars, execVars, confVars, nestVars, taskVars>>

\* The consumer asks a generator for its next chunk: the first request runs
\* the body from its start, a later one resumes it after the yield
ConsumerNext ==
    /\ mode \in StreamModes
    /\ \/ /\ pc = "created"
          /\ Enter(mode, prompt, system_prompt, config_override, max_retries)
       \/ /\ pc = "yielded"
          /\ pc' = "streaming"
          /\ UNCHANGED <<config, messages, attempts, last_error, result>>
    /\ UNCHANGED <<config_override, mode, prompt, system_prompt, max_retries, calls, outcomes, sleeps,
                   frames, chunks, envVars, pipeVars, regVars, execVars, confVars, nestVars, taskVars>>

\* The consumer drops or closes a generator that is not running
ConsumerClose ==
    /\ mode \in StreamModes
    /\ pc \in {"created", "yielded"}
    /\ pc' = "closed"
    /\ UNCHANGED <<config_override, mode, prompt, system_prompt, max_retries, config,
                   messages, attempts, last_error, calls, outcomes, sleeps, result,
                   frames, chunks, envVars, pipeVars, regVars, execVars, confVars, nestVars, taskVars>>

\* litellm.completion / acompletion is called
Request ==
    /\ pc = "request"
    /\ calls' = Append(calls, CompletionCall(mode, config, messages))
    /\ pc' = "waiting"
    /\ UNCHANGED <<config_override, mode, prompt, system_prompt, max_retries, config,
                   messages, attempts, last_error, outcomes, sleeps, result, frames,
                   chunks, envVars, pipeVars, regVars, execVars, confVars, nestVars, taskVars>>

\* The except clauses with every exception taken for a retryable one
HandleExceptionRetryAll(c, e) ==
    /\ last_error' = e
    /\ attempts' = attempts + 1
    /\ IF MayRetry(attempts + 1, max_retries)
       THEN /\ sleeps' = Append(sleeps, [delay |-> RetryDelay(attempts + 1),
                                         after |-> Len(calls)])
            /\ pc' = "sleeping"
            /\ result' = NoResult
       ELSE /\ sleeps' = sleeps
            /\ pc' = "raised"
            /\ result' = ExhaustedError(max_retries, e)

\* The except clauses with a retryable failure that is not counted
HandleExceptionNoCount(c, e) ==
    IF CaughtAsRetryable(mode, c)
    THEN /\ last_error' = e
         /\ attempts' = attempts
         /\ sleeps' = Append(sleeps, [delay |-> RetryDelay(attempts + 1),
                                      after |-> Len(calls)])
         /\ pc' = "sleeping"
         /\ result' = NoResult
    ELSE /\ pc' = "raised"
         /\ result' = NonRetryableError(e)
         /\ UNCHANGED <<last_error, attempts, sleeps>>

\* The except clauses of the retry loop, for an exception of class c whose
\* str() is e, and the code after the loop
HandleException(c, e) ==
    IF CaughtAsRetryable(mode, c)
    THEN /\ last_error' = e
         /\ attempts' = attempts + 1
         /\ IF MayRetry(attempts + 1, max_retries)
            THEN /\ sleeps' = Append(sleeps, [delay |-> RetryDelay(attempts + 1),
                                              after |-> Len(calls)])
                 /\ pc' = "sleeping"
                 /\ result' = NoResult
            ELSE /\ sleeps' = sleeps
                 /\ pc' = "raised"
                 /\ result' = ExhaustedError(max_retries, e)
    ELSE /\ pc' = "raised"
         /\ result' = NonRetryableError(e)
         /\ UNCHANGED <<last_error, attempts, sleeps>>

\* The transport call raises an exception of class c
TransportRaises(c) ==
    /\ pc = "waiting"
    /\ outcomes' = Append(outcomes, Raised(c))
    /\ IF mode \in StreamModes
       THEN /\ pc' = "raised"
            /\ result' = StreamingError(c)
            /\ UNCHANGED <<last_error, attempts, sleeps>>
       ELSE HandleException(c, c)
    /\ UNCHANGED <<config_override, mode, prompt, system_prompt, max_retries, config,
                   messages, calls, frames, chunks, envVars, pipeVars, regVars, execVars, confVars, nestVars, taskVars>>

\* The transport call of a non-stream mode returns response r
TransportReturns(r) ==
    /\ pc = "waiting"
    /\ mode \notin StreamModes
    /\ outcomes' = Append(outcomes, Responded(r))
    /\ IF ResponseOk(r)
       THEN /\ pc' = "returned"
            /\ result' = Returned(r.choices[1].message.content)
            /\ UNCHANGED <<last_error, attempts, sleeps>>
       ELSE HandleException("LLMError", UnexpectedFormat)
    /\ UNCHANGED <<config_override, mode, prompt, system_prompt, max_retries, config,
                   messages, calls, frames, chunks, envVars, pipeVars, regVars, execVars, confVars, nestVars, taskVars>>

\* The transport call of a stream mode returns the stream
TransportStreams ==
    /\ pc = "waiting"
    /\ mode \in StreamModes
    /\ outcomes' = Append(outcomes, Streamed)
    /\ pc' = "streaming"
    /\ UNCHANGED <<config_override, mode, prompt, system_prompt, max_retries, config,
                   messages, attempts, last_error, calls, sleeps, result, frames,
                   chunks, envVars, pipeVars, regVars, execVars, confVars, nestVars, taskVars>>

\* time.sleep / asyncio.sleep returns, and the while condition is evaluated
Wake ==
    /\ pc = "sleeping"
    /\ IF LoopCondition(attempts, max_retries)
       THEN pc' = "request" /\ result' = result
       ELSE pc' = "raised" /\ result' = ExhaustedError(max_retries, last_error)
    /\ UNCHANGED <<config_override, mode, prompt, system_prompt, max_retries, config,
                   messages, attempts, last_error, calls, outcomes, sleeps, frames,
                   chunks, envVars, pipeVars, regVars, execVars, confVars, nestVars, taskVars>>

\* The for loop of a stream mode reads frame f, and yields its content if any
StreamFrameEager(f) ==
    /\ pc \in {"streaming", "yielded"}
    /\ Len(frames) < MaxFrames
    /\ frames' = Append(frames, f)
    /\ IF FrameHasContent(f)
       THEN /\ chunks' = Append(chunks, f.choices[1].delta.content)
            /\ pc' = "yielded"
       ELSE /\ chunks' = chunks
            /\ pc' = "streaming"
    /\ UNCHANGED <<config_override, mode, prompt, system_prompt, max_retries, config,
                   messages, attempts, last_error, calls, outcomes, sleeps, result,
                   envVars, pipeVars, regVars, execVars, confVars, nestVars, taskVars>>
StreamFrame(f) ==
    /\ pc = "streaming"
    /\ Len(frames) < MaxFrames
    /\ frames' = Append(frames, f)
    /\ IF FrameHasContent(f)
       THEN /\ chunks' = Append(chunks, f.choices[1].delta.content)
            /\ pc' = "yielded"
       ELSE /\ chunks' = chunks
            /\ pc' = "streaming"
    /\ UNCHANGED <<config_override, mode, prompt, system_prompt, max_retries, config,
                   messages, attempts, last_error, calls, outcomes, sleeps, result,
                   envVars, pipeVars, regVars, execVars, confVars, nestVars, taskVars>>

\* The stream ends: the generator returns
StreamEnds ==
    /\ pc = "streaming"
    /\ pc' = "returned"
    /\ result' = StopIteration
    /\ UNCHANGED <<config_override, mode, prompt, system_prompt, max_retries, config,
                   messages, attempts, last_error, calls, outcomes, sleeps, frames,
                   chunks, envVars, pipeVars, regVars, execVars, confVars, nestVars, taskVars>>

\* Reading the next frame raises an exception of class c
StreamRaisesSilently(c) ==
    /\ pc = "streaming"
    /\ pc' = "returned"
    /\ result' = StopIteration
    /\ outcomes' = Append(outcomes, Raised(c))
    /\ UNCHANGED <<config_override, mode, prompt, system_prompt, max_retries, config,
                   messages, attempts, last_error, calls, sleeps, frames, chunks,
                   envVars, pipeVars, regVars, execVars, confVars, nestVars, taskVars>>
StreamRaises(c) ==
    /\ pc = "streaming"
    /\ pc' = "raised"
    /\ result' = StreamingError(c)
    /\ outcomes' = Append(outcomes, Raised(c))
    /\ UNCHANGED <<config_override, mode, prompt, system_prompt, max_retries, config,
                   messages, attempts, last_error, calls, sleeps, frames, chunks,
                   envVars, pipeVars, regVars, execVars, confVars, nestVars, taskVars>>

\* The frame of an invocation goes away with its locals
Forget ==
    /\ pc' = "idle"
    /\ config_override' = [isNone |-> TRUE, dict |-> NoOverride]
    /\ mode' = "call_llm"
    /\ prompt' = [type |-> "NoneType", value |-> NoneVal]
    /\ system_prompt' = NoneVal
    /\ max_retries' = 0
    /\ config' = NoOverride
    /\ messages' = <<>>
    /\ attempts' = 0
    /\ last_error' = NoneVal
    /\ calls' = <<>>
    /\ outcomes' = <<>>
    /\ sleeps' = <<>>
    /\ result' = NoResult
    /\ frames' = <<>>
    /\ chunks' = <<>>

\* The invocation is over and its frame is discarded; the caller may call again
Discard ==
    /\ pc \in TerminalPcs
    /\ Forget
    /\ UNCHANGED <<envVars, pipeVars, regVars, execVars, confVars, nestVars, taskVars>>

\* The process's environment changes between two invocations
SetEnv(k, mdl) ==
    /\ pc = "idle"
    /\ environ' = [OPENROUTER_API_KEY |-> k, OPENROUTER_MODEL |-> mdl]
    /\ environ' # environ
    /\ UNCHANGED <<DEFAULT_LLM_CONFIG, clientVars, pipeVars, regVars, execVars, confVars, nestVars, taskVars>>

----------------------------------------------------------------------------
(* proctor/base.py: CompositeTechnique, and the leaf techniques it chains *)

\* A prompt string is a sequence of tokens: a piece of the caller's text, or a
\* piece of a technique's template with the option interpolated into it
Text(w) == [t |-> "text", v |-> w]
Tmpl(name, opt) == [t |-> name, v |-> opt]

\* An input_text that is no string: an int, or None
NonStr(type, repr) == <<[t |-> type, v |-> repr]>>

\* isinstance(x, str)
IsStrText(x) == \A i \in 1..Len(x) : x[i].t \notin {"int", "NoneType"}

\* Python's truth value of x: "" is false, and so are 0 and None
TruthyText(x) ==
    IF IsStrText(x) THEN x # <<>> ELSE x[1].t = "int" /\ x[1].v # "0"

\* f"{x}": a string as it is, any other value through str()
Format(x) == IF IsStrText(x) THEN x ELSE <<Text(x[1].v)>>

\* The input_text arguments tried: a question, the empty string, 123 and None
InputTexts == { <<Text("Explain quantum computing.")>>, <<>>,
                NonStr("int", "123"), NonStr("NoneType", "None") }

\* The **kwargs tried
NoKwargs == [k \in {} |-> ""]
KwargsTried == { NoKwargs,
                 [role |-> "quantum physicist"],
                 [domain |-> "physics"],
                 [role |-> "teacher", domain |-> "physics"],
                 [examples |-> "missing answer"],
                 [examples |-> "empty answer"] }

\* The lists of examples a caller passes as examples=: each example is a dict
Examples(name) ==
    CASE name = "missing answer" ->
           << [problem |-> "2 + 2?", reasoning |-> "Add.", answer |-> "4"],
              [problem |-> "3 + 3?", reasoning |-> "Add."] >>
      [] name = "empty answer" ->
           << [problem |-> "2 + 2?", reasoning |-> "Add.", answer |-> ""] >>
      [] OTHER ->
           << [problem |-> "If John has 5 apples", reasoning |-> "5 - 2 = 3",
               answer |-> "3 apples"],
              [problem |-> "If a train travels 120 km", reasoning |-> "120 / 2 = 60",
               answer |-> "60 km/hour"] >>

\* kwargs.get(k, default), and a named parameter with a default
KwGet(kw, k, default) == IF k \in DOMAIN kw THEN kw[k] ELSE default

\* What a generate_prompt call returns or raises
PromptOk(x) == [ok |-> TRUE, value |-> x, error |-> ""]
PromptValueError(msg) == [ok |-> FALSE, value |-> <<>>, error |-> msg]

\* RolePrompting.generate_prompt: the template around input_text, no validation
RolePrompting(x, kw) ==
    LET role == KwGet(kw, "role", "expert")
    IN PromptOk(<<Tmpl("I want you to assume the role of a", role)>> \o Format(x)
                \o <<Tmpl("Your response as a", role)>>)

\* ZeroShotCoT.generate_prompt: rejects an input_text that is empty or no string
ZeroShotCoT(x, kw) ==
    IF ~TruthyText(x) \/ ~IsStrText(x)
    THEN PromptValueError("input_text must be a non-empty string")
    ELSE PromptOk(<<Tmpl("Problem/Question:", "")>> \o x
                  \o <<Tmpl("Let's think step by step", KwGet(kw, "domain", ""))>>)

\* EmotionPrompting.generate_prompt: the template around input_text, no validation
EmotionPrompting(x, kw) ==
    LET emotion == KwGet(kw, "emotion", "excited")
    IN PromptOk(<<Tmpl("respond with energy", emotion), Tmpl("Task:", "")>> \o Format(x)
                \o <<Tmpl("Begin your response now", emotion)>>)

\* FewShotCoT._validate_examples: the message of the first ValueError the loop
\* over the examples raises, "" when it raises none
RECURSIVE _validate_examples(_)
_validate_examples(examples) ==
    IF examples = <<>> THEN ""
    ELSE LET example == Head(examples)
             required_keys == {"problem", "reasoning", "answer"}
         IN IF ~(required_keys \subseteq DOMAIN example)
            THEN "Each example must contain {'problem', 'reasoning', 'answer'}"
            ELSE IF \E key \in required_keys : example[key] = ""
            THEN "Example fields must be non-empty strings"
            ELSE _validate_examples(Tail(examples))

\* FewShotCoT.generate_prompt: validates input_text, then the examples (the
\* caller's, or the two built-in ones), then formats them before the problem
FewShotCoT(x, kw) ==
    LET examples == Examples(KwGet(kw, "examples", "default"))
    IN IF ~TruthyText(x) \/ ~IsStrText(x)
       THEN PromptValueError("input_text must be a non-empty string")
       ELSE IF _validate_examples(examples) # ""
       THEN PromptValueError(_validate_examples(examples))
       ELSE PromptOk([i \in 1..Len(examples) |-> Tmpl("Problem:", examples[i].problem)]
                     \o <<Tmpl("Use the same step-by-step reasoning", KwGet(kw, "domain", "")),
                          Tmpl("Problem:", "")>>
                     \o x \o <<Tmpl("Reasoning:", "")>>)

LeafTechniques == {"RolePrompting", "ZeroShotCoT", "EmotionPrompting", "FewShotCoT"}

\* technique.generate_prompt(x, **kw), dispatched on the technique's class
TechniqueGeneratePrompt(t, x, kw) ==
    CASE t = "RolePrompting" -> RolePrompting(x, kw)
      [] t = "ZeroShotCoT" -> ZeroShotCoT(x, kw)
      [] t = "EmotionPrompting" -> EmotionPrompting(x, kw)
      [] t = "FewShotCoT" -> FewShotCoT(x, kw)

\* All lists of at most n leaf techniques
RECURSIVE TechniqueLists(_)
TechniqueLists(n) ==
    IF n = 0 THEN {<<>>}
    ELSE LET shorter == TechniqueLists(n - 1)
         IN shorter \cup {Append(ts, t) : ts \in shorter, t \in LeafTechniques}

\* The argument a stage is called with: the loop variable prompt
StageInputOriginal == input_text
StageInput == cur

\* The technique the for loop is at
StageTechnique == techniques[stage + 1]

\* The states of a CompositeTechnique.generate_prompt call
PipeIdle == [state |-> "idle", value |-> <<>>, error |-> ""]
PipeRunning == [state |-> "running", value |-> <<>>, error |-> ""]
PipeReturns(x) == [state |-> "return", value |-> x, error |-> ""]

\* A stage raised r: nothing in the loop catches it, so the call raises it
PipeRaisesWrapped(r) == [state |-> "ValueError", value |-> <<>>,
                         error |-> "Error in pipeline"]
PipeRaises(r) == [state |-> "ValueError", value |-> <<>>, error |-> r.error]

\* CompositeTechnique.generate_prompt is called: prompt = input_text
CompositeGeneratePrompt(ts, x, kw) ==
    /\ pipeResult.state = "idle"
    /\ techniques' = ts
    /\ input_text' = x
    /\ kwargs' = kw
    /\ cur' = x
    /\ stage' = 0
    /\ stageLog' = <<>>
    /\ pipeResult' = PipeRunning
    /\ UNCHANGED <<envVars, clientVars, regVars, execVars, confVars, nestVars, taskVars>>

\* One iteration of the for loop: prompt = technique.generate_prompt(prompt, **kwargs)
CompositeStage ==
    /\ pipeResult.state = "running"
    /\ stage < Len(techniques)
    /\ LET r == TechniqueGeneratePrompt(StageTechnique, StageInput, kwargs)
       IN /\ stageLog' = Append(stageLog, [technique |-> StageTechnique,
                                           index |-> stage + 1,
                                           input_text |-> StageInput,
                                           kwargs |-> kwargs])
          /\ IF r.ok
             THEN /\ cur' = r.value
                  /\ stage' = stage + 1
                  /\ pipeResult' = pipeResult
             ELSE /\ pipeResult' = PipeRaises(r)
                  /\ UNCHANGED <<cur, stage>>
    /\ UNCHANGED <<techniques, input_text, kwargs, envVars, clientVars, regVars, execVars, confVars, nestVars, taskVars>>

\* The for loop is over: return prompt
CompositeReturn ==
    /\ pipeResult.state = "running"
    /\ stage = Len(techniques)
    /\ pipeResult' = PipeReturns(cur)
    /\ UNCHANGED <<techniques, input_text, kwargs, cur, stage, stageLog,
                   envVars, clientVars, regVars, execVars, confVars, nestVars, taskVars>>

\* The call is over; a CompositeTechnique keeps nothing of it but its list
CompositeDiscard ==
    /\ pipeResult.state \in {"return", "ValueError"}
    /\ pipeResult' = PipeIdle
    /\ techniques' = <<>>
    /\ input_text' = <<>>
    /\ kwargs' = NoKwargs
    /\ cur' = <<>>
    /\ stage' = 0
    /\ stageLog' = <<>>
    /\ UNCHANGED <<envVars, clientVars, regVars, execVars, confVars, nestVars, taskVars>>

----------------------------------------------------------------------------
(* proctor/__init__.py: the technique registry *)

\* ALL_TECHNIQUES: the registered names and their classes, in the dict's order
ALL_TECHNIQUES == <<
    [name |-> "emotion_prompting", cls |-> "EmotionPrompting"],
    [name |-> "role_prompting", cls |-> "RolePrompting"],
    [name |-> "style_prompting", cls |-> "StylePrompting"],
    [name |-> "s2a", cls |-> "S2A"],
    [name |-> "simtom", cls |-> "SimToM"],
    [name |-> "rar", cls |-> "RaR"],
    [name |-> "rf2", cls |-> "RF2"],
    [name |-> "self_ask", cls |-> "SelfAsk"],
    [name |-> "example_generation", cls |-> "ExampleGeneration"],
    [name |-> "example_ordering", cls |-> "ExampleOrdering"],
    [name |-> "exemplar_selection", cls |-> "ExemplarSelection"],
    [name |-> "sgicl", cls |-> "SGICL"],
    [name |-> "vote_k", cls |-> "VoteK"],
    [name |-> "prompt_mining", cls |-> "PromptMining"],
    [name |-> "knn", cls |-> "KNN"],
    [name |-> "chain_of_thought", cls |-> "ChainOfThought"],
    [name |-> "zero_shot_cot", cls |-> "ZeroShotCoT"],
    [name |-> "few_shot_cot", cls |-> "FewShotCoT"],
    [name |-> "analogical_prompting", cls |-> "AnalogicalPrompting"],
    [name |-> "step_back_prompting", cls |-> "StepBackPrompting"],
    [name |-> "thread_of_thought", cls |-> "ThreadOfThought"],
    [name |-> "tab_cot", cls |-> "TabCoT"],
    [name |-> "active_prompt", cls |-> "ActivePrompt"],
    [name |-> "auto_cot", cls |-> "AutoCoT"],
    [name |-> "complexity_based", cls |-> "ComplexityBased"],
    [name |-> "contrastive", cls |-> "Contrastive"],
    [name |-> "memory_of_thought", cls |-> "MemoryOfThought"],
    [name |-> "uncertainty_routed", cls |-> "UncertaintyRouted"],
    [name |-> "self_consistency", cls |-> "SelfConsistency"],
    [name |-> "cosp", cls |-> "COSP"],
    [name |-> "dense", cls |-> "DENSE"],
    [name |-> "diverse", cls |-> "DiVeRSe"],
    [name |-> "max_mutual_information", cls |-> "MaxMutualInformation"],
    [name |-> "meta_cot", cls |-> "MetaCoT"],
    [name |-> "more", cls |-> "MoRE"],
    [name |-> "universal_self_consistency", cls |-> "UniversalSelfConsistency"],
    [name |-> "usp", cls |-> "USP"],
    [name |-> "prompt_paraphrasing", cls |-> "PromptParaphrasing"],
    [name |-> "chain_of_verification", cls |-> "ChainOfVerification"],
    [name |-> "self_calibration", cls |-> "SelfCalibration"],
    [name |-> "self_refine", cls |-> "SelfRefine"],
    [name |-> "self_verification", cls |-> "SelfVerification"],
    [name |-> "reverse_cot", cls |-> "ReverseCoT"],
    [name |-> "cumulative_reasoning", cls |-> "CumulativeReasoning"],
    [name |-> "decomp", cls |-> "DECOMP"],
    [name |-> "faithful_cot", cls |-> "FaithfulCoT"],
    [name |-> "least_to_most", cls |-> "LeastToMost"],
    [name |-> "plan_and_solve", cls |-> "PlanAndSolve"],
    [name |-> "program_of_thought", cls |-> "ProgramOfThought"],
    [name |-> "recursion_of_thought", cls |-> "RecursionOfThought"],
    [name |-> "skeleton_of_thought", cls |-> "SkeletonOfThought"],
    [name |-> "tree_of_thought", cls |-> "TreeOfThought"]
>>

\* The identifier each class passes to PromptTechnique.__init__, as the string
\* of its characters
ZeroShotIdentifiers ==
    ("EmotionPrompting" :> <<"2", ".", "2", ".", "2", ".", "1">>) @@
    ("RolePrompting" :> <<"2", ".", "2", ".", "2", ".", "2">>) @@
    ("StylePrompting" :> <<"2", ".", "2", ".", "2", ".", "3">>) @@
    ("S2A" :> <<"2", ".", "2", ".", "2", ".", "4">>) @@
    ("SimToM" :> <<"2", ".", "2", ".", "2", ".", "5">>) @@
    ("RaR" :> <<"2", ".", "2", ".", "2", ".", "6">>) @@
    ("RF2" :> <<"2", ".", "2", ".", "2", ".", "7">>) @@
    ("SelfAsk" :> <<"2", ".", "2", ".", "2", ".", "8">>)

FewShotIdentifiers ==
    ("ExampleGeneration" :> <<"2", ".", "2", ".", "1", ".", "1">>) @@
    ("ExampleOrdering" :> <<"2", ".", "2", ".", "1", ".", "1">>) @@
    ("ExemplarSelection" :> <<"2", ".", "2", ".", "1", ".", "2">>) @@
    ("SGICL" :> <<"2", ".", "2", ".", "1", ".", "2">>) @@
    ("VoteK" :> <<"2", ".", "2", ".", "1", ".", "2">>) @@
    ("PromptMining" :> <<"2", ".", "2", ".", "1", ".", "2">>) @@
    ("KNN" :> <<"2", ".", "2", ".", "1", ".", "2">>)

ThoughtGenerationIdentifiers ==
    ("ChainOfThought" :> <<"2", ".", "2", ".", "3">>) @@
    ("ZeroShotCoT" :> <<"2", ".", "2", ".", "3", ".", "1">>) @@
    ("FewShotCoT" :> <<"2", ".", "2", ".", "3", ".", "2">>) @@
    ("AnalogicalPrompting" :> <<"2", ".", "2", ".", "3", ".", "1">>) @@
    ("StepBackPrompting" :> <<"2", ".", "2", ".", "3", ".", "1">>) @@
    ("ThreadOfThought" :> <<"2", ".", "2", ".", "3", ".", "1">>) @@
    ("TabCoT" :> <<"2", ".", "2", ".", "3", ".", "1">>) @@
    ("ActivePrompt" :> <<"2", ".", "2", ".", "3", ".", "2">>) @@
    ("AutoCoT" :> <<"2", ".", "2", ".", "3", ".", "2">>) @@
    ("ComplexityBased" :> <<"2", ".", "2", ".", "3", ".", "2">>) @@
    ("Contrastive" :> <<"2", ".", "2", ".", "3", ".", "2">>) @@
    ("MemoryOfThought" :> <<"2", ".", "2", ".", "3", ".", "2">>) @@
    ("UncertaintyRouted" :> <<"2", ".", "2", ".", "3", ".", "2">>)

EnsemblingIdentifiers ==
    ("SelfConsistency" :> <<"2", ".", "2", ".", "5">>) @@
    ("COSP" :> <<"2", ".", "2", ".", "5">>) @@
    ("DENSE" :> <<"2", ".", "2", ".", "5">>) @@
    ("DiVeRSe" :> <<"2", ".", "2", ".", "5">>) @@
    ("MaxMutualInformation" :> <<"2", ".", "2", ".", "5">>) @@
    ("MetaCoT" :> <<"2", ".", "2", ".", "5">>) @@
    ("MoRE" :> <<"2", ".", "2", ".", "5">>) @@
    ("UniversalSelfConsistency" :> <<"2", ".", "2", ".", "5">>) @@
    ("USP" :> <<"2", ".", "2", ".", "5">>) @@
    ("PromptParaphrasing" :> <<"2", ".", "2", ".", "5">>)

SelfCriticismIdentifiers ==
    ("ChainOfVerification" :> <<"2", ".", "2", ".", "6">>) @@
    ("SelfCalibration" :> <<"2", ".", "2", ".", "6">>) @@
    ("SelfRefine" :> <<"2", ".", "2", ".", "6">>) @@
    ("SelfVerification" :> <<"2", ".", "2", ".", "6">>) @@
    ("ReverseCoT" :> <<"2", ".", "2", ".", "6">>) @@
    ("CumulativeReasoning" :> <<"2", ".", "2", ".", "6">>)

DecompositionIdentifiers ==
    ("DECOMP" :> <<"2", ".", "2", ".", "4">>) @@
    ("FaithfulCoT" :> <<"2", ".", "2", ".", "4">>) @@
    ("LeastToMost" :> <<"2", ".", "2", ".", "4">>) @@
    ("PlanAndSolve" :> <<"2", ".", "2", ".", "4">>) @@
    ("ProgramOfThought" :> <<"2", ".", "2", ".", "4">>) @@
    ("RecursionOfThought" :> <<"2", ".", "2", ".", "4">>) @@
    ("SkeletonOfThought" :> <<"2", ".", "2", ".", "4">>) @@
    ("TreeOfThought" :> <<"2", ".", "2", ".", "4">>)

ClassIdentifier ==
    ZeroShotIdentifiers @@
    FewShotIdentifiers @@
    ThoughtGenerationIdentifiers @@
    EnsemblingIdentifiers @@
    SelfCriticismIdentifiers @@
    DecompositionIdentifiers

\* list(ALL_TECHNIQUES.keys()): the registered names in the dict's order
Keys == [i \in 1..Len(ALL_TECHNIQUES) |-> ALL_TECHNIQUES[i].name]

\* ALL_TECHNIQUES.get(name): the class registered under name, or None
TechniqueClassAny(name) ==
    IF \E i \in 1..Len(ALL_TECHNIQUES) : ALL_TECHNIQUES[i].name = name
    THEN (CHOOSE e \in {ALL_TECHNIQUES[i] : i \in 1..Len(ALL_TECHNIQUES)} : e.name = name).cls
    ELSE ALL_TECHNIQUES[1].cls
TechniqueClass(name) ==
    IF \E i \in 1..Len(ALL_TECHNIQUES) : ALL_TECHNIQUES[i].name = name
    THEN (CHOOSE e \in {ALL_TECHNIQUES[i] : i \in 1..Len(ALL_TECHNIQUES)} : e.name = name).cls
    ELSE NoneVal

\* str.startswith, character by character
StartsWithWhole(s, prefix) == s = prefix
RECURSIVE StartsWith(_, _)
StartsWith(s, prefix) ==
    IF prefix = <<>> THEN TRUE
    ELSE IF s = <<>> THEN FALSE
    ELSE Head(s) = Head(prefix) /\ StartsWith(Tail(s), Tail(prefix))

\* No instance: a local that is not bound, or a returned None
NoInstance == [cls |-> NoneVal, id |-> 0]

\* technique_cls(): a new object, distinct from every object created before
NewInstance(cls) == [cls |-> cls, id |-> Cardinality({o \in heap : o.cls = cls}) + 1]

\* name in _TECHNIQUE_INSTANCES
CacheHitNever(name) == FALSE
CacheHit(name) == name \in DOMAIN _TECHNIQUE_INSTANCES

\* _TECHNIQUE_INSTANCES[name] = instance
CacheStore(name, instance) ==
    [n \in DOMAIN _TECHNIQUE_INSTANCES \cup {name} |->
        IF n = name THEN instance ELSE _TECHNIQUE_INSTANCES[n]]

\* The callers: thread 1, and a second thread where calls run concurrently
Threads == {1, 2}

\* The names get_technique is called with, the last one registered nowhere
NamesTried == {"chain_of_thought", "zero_shot_cot", "few_shot_cot", "nonexistent_technique"}

\* The category arguments list_techniques is called with: None or a string
NoCategory == [isNone |-> TRUE, value |-> <<>>]
Category(s) == [isNone |-> FALSE, value |-> s]
CategoriesTried ==
    { NoCategory,
      Category(<<>>),
      Category(<<"2", ".", "2", ".", "3">>),
      Category(<<"2", ".", "2", ".", "1", ".", "2">>),
      Category(<<"2", ".", "2", ".", "3", ".">>),
      Category(<<"n", "o", "n", "e", "x", "i", "s", "t", "e", "n", "t">>) }

\* The arguments of the calls that run concurrently
NamesRaced == {"chain_of_thought", "nonexistent_technique"}
CategoriesRaced == {NoCategory, Category(<<"2", ".", "2", ".", "3">>)}

\* not category
NotCategoryNoneOnly(c) == c.isNone
NotCategory(c) == c.isNone \/ c.value = <<>>

\* A thread outside the registry's functions
ThreadIdle == [pc |-> "idle", op |-> "", name |-> "", category |-> NoCategory, i |-> 0,
               instance |-> NoInstance, names |-> <<>>, returned |-> NoInstance]

\* get_technique(name), up to the store: a cached instance is returned at once;
\* otherwise the class is looked up and, when there is one, instantiated
get_technique(t, name) ==
    /\ threads[t].pc = "idle"
    /\ IF CacheHit(name)
       THEN /\ threads' = [threads EXCEPT ![t] =
                   [ThreadIdle EXCEPT !.pc = "returned", !.op = "get_technique", !.name = name,
                                      !.returned = _TECHNIQUE_INSTANCES[name]]]
            /\ handedOut' = handedOut \cup {[name |-> name, instance |-> _TECHNIQUE_INSTANCES[name]]}
            /\ heap' = heap
       ELSE IF TechniqueClass(name) # NoneVal
       THEN /\ threads' = [threads EXCEPT ![t] =
                   [ThreadIdle EXCEPT !.pc = "get:store", !.op = "get_technique", !.name = name,
                                      !.instance = NewInstance(TechniqueClass(name))]]
            /\ heap' = heap \cup {NewInstance(TechniqueClass(name))}
            /\ handedOut' = handedOut
       ELSE /\ threads' = [threads EXCEPT ![t] =
                   [ThreadIdle EXCEPT !.pc = "returned", !.op = "get_technique", !.name = name]]
            /\ UNCHANGED <<heap, handedOut>>
    /\ UNCHANGED <<_TECHNIQUE_INSTANCES, envVars, clientVars, pipeVars, execVars, confVars, nestVars, taskVars>>

\* get_technique: _TECHNIQUE_INSTANCES[name] = instance; return instance
GetStore(t) ==
    /\ threads[t].pc = "get:store"
    /\ _TECHNIQUE_INSTANCES' = CacheStore(threads[t].name, threads[t].instance)
    /\ threads' = [threads EXCEPT ![t].pc = "returned", ![t].returned = threads[t].instance]
    /\ handedOut' = handedOut \cup {[name |-> threads[t].name, instance |-> threads[t].instance]}
    /\ UNCHANGED <<heap, envVars, clientVars, pipeVars, execVars, confVars, nestVars, taskVars>>

\* list_techniques(category): without a category the names are returned at
\* once; otherwise the loop over ALL_TECHNIQUES starts
list_techniques(t, category) ==
    /\ threads[t].pc = "idle"
    /\ threads' = [threads EXCEPT ![t] =
            IF NotCategory(category)
            THEN [ThreadIdle EXCEPT !.pc = "returned", !.op = "list_techniques",
                                    !.category = category, !.names = Keys]
            ELSE [ThreadIdle EXCEPT !.pc = "list:loop", !.op = "list_techniques",
                                    !.category = category, !.i = 1]]
    /\ UNCHANGED <<_TECHNIQUE_INSTANCES, heap, handedOut, envVars, clientVars, pipeVars, execVars, confVars, nestVars, taskVars>>

\* The names collected so far, with name when the cached instance's identifier
\* starts with the category
Collect(th, name, instance) ==
    IF StartsWith(ClassIdentifier[instance.cls], th.category.value)
    THEN Append(th.names, name) ELSE th.names

\* One iteration of list_techniques' loop, up to the store: a name that is
\* not cached has its class instantiated; a cached one is tested and collected
ListCheck(t) ==
    /\ threads[t].pc = "list:loop"
    /\ threads[t].i <= Len(Keys)
    /\ LET name == Keys[threads[t].i]
       IN IF ~CacheHit(name)
          THEN /\ threads' = [threads EXCEPT ![t].pc = "list:store",
                                             ![t].instance = NewInstance(TechniqueClass(name))]
               /\ heap' = heap \cup {NewInstance(TechniqueClass(name))}
          ELSE /\ threads' = [threads EXCEPT
                                 ![t].names = Collect(threads[t], name, _TECHNIQUE_INSTANCES[name]),
                                 ![t].i = threads[t].i + 1]
               /\ heap' = heap
    /\ UNCHANGED <<_TECHNIQUE_INSTANCES, handedOut, envVars, clientVars, pipeVars, execVars, confVars, nestVars, taskVars>>

\* The rest of the iteration: the new instance is stored, then the cached
\* instance is tested and collected
ListStore(t) ==
    /\ threads[t].pc = "list:store"
    /\ LET name == Keys[threads[t].i]
       IN /\ _TECHNIQUE_INSTANCES' = CacheStore(name, threads[t].instance)
          /\ threads' = [threads EXCEPT
                            ![t].pc = "list:loop",
                            ![t].instance = NoInstance,
                            ![t].names = Collect(threads[t], name, threads[t].instance),
                            ![t].i = threads[t].i + 1]
    /\ UNCHANGED <<heap, handedOut, envVars, clientVars, pipeVars, execVars, confVars, nestVars, taskVars>>

\* The loop is over: return the collected names
ListReturn(t) ==
    /\ threads[t].pc = "list:loop"
    /\ threads[t].i > Len(Keys)
    /\ threads' = [threads EXCEPT ![t].pc = "returned"]
    /\ UNCHANGED <<_TECHNIQUE_INSTANCES, heap, handedOut, envVars, clientVars, pipeVars, execVars, confVars, nestVars, taskVars>>

\* The caller has its result and goes on
ThreadResumes(t) ==
    /\ threads[t].pc = "returned"
    /\ threads' = [threads EXCEPT ![t] = ThreadIdle]
    /\ UNCHANGED <<_TECHNIQUE_INSTANCES, heap, handedOut, envVars, clientVars, pipeVars, execVars, confVars, nestVars, taskVars>>

----------------------------------------------------------------------------
(* proctor/base.py: PromptTechnique.execute *)

\* A technique object: a leaf of one of the classes, or a CompositeTechnique
\* over a list of technique objects, which may be composites themselves
Leaf(cls) == [composite |-> FALSE, cls |-> cls, techniques |-> <<>>]
Composite(ts) == [composite |-> TRUE, cls |-> "CompositeTechnique", techniques |-> ts]

RECURSIVE generate_prompt(_, _, _)
RECURSIVE CompositeLoopMarked(_, _, _)
RECURSIVE CompositeLoop(_, _, _)

\* A loop that ends its result with a template of the composite's own
CompositeLoopMarked(ts, x, kw) ==
    IF ts = <<>> THEN PromptOk(x \o <<Tmpl("End of pipeline", "")>>)
    ELSE LET r == generate_prompt(Head(ts), x, kw)
         IN IF r.ok THEN CompositeLoopMarked(Tail(ts), r.value, kw) ELSE r

\* CompositeTechnique.generate_prompt as a function: the loop over the stages,
\* left by the first stage that raises
CompositeLoop(ts, x, kw) ==
    IF ts = <<>> THEN PromptOk(x)
    ELSE LET r == generate_prompt(Head(ts), x, kw)
         IN IF r.ok THEN CompositeLoop(Tail(ts), r.value, kw) ELSE r

\* technique.generate_prompt(input_text, **kwargs), for a leaf or a composite
generate_prompt(tech, x, kw) ==
    IF tech.composite THEN CompositeLoop(tech.techniques, x, kw)
    ELSE TechniqueGeneratePrompt(tech.cls, x, kw)

\* The characters of a prompt string
RECURSIVE Render(_)
Render(x) ==
    IF x = <<>> THEN ""
    ELSE (IF Head(x).t = "text" THEN Head(x).v
          ELSE "[" \o Head(x).t \o ":" \o Head(x).v \o "]") \o Render(Tail(x))

\* The generated prompt as call_llm's argument: a str, or the value of
\* another type that an empty pipeline hands through
ToPrompt(x) ==
    IF IsStrText(x) THEN [type |-> "str", value |-> Render(x)]
    ELSE IF x[1].t = "NoneType" THEN [type |-> "NoneType", value |-> NoneVal]
    ELSE [type |-> x[1].t, value |-> x[1].v]

\* The techniques execute is called on, and its arguments
ExecTechniques == { Leaf("RolePrompting"), Leaf("ZeroShotCoT"), Composite(<<>>),
                    Composite(<<Leaf("EmotionPrompting"), Leaf("ZeroShotCoT")>>) }
ExecOverrides == { [isNone |-> TRUE, dict |-> NoOverride],
                   [isNone |-> FALSE, dict |-> [api_key |-> "call-key"]] }
ExecRetries == {0, 2}
ExecKwargs == { NoKwargs, [role |-> "teacher", domain |-> "physics"] }

\* No execute call is running
ExecIdle == [pc |-> "idle", technique |-> Composite(<<>>), input_text |-> <<>>,
             kwargs |-> NoKwargs, prompt |-> <<>>, outcome |-> NoResult]

\* generate_prompt raised r outside the try block: execute raises it as it is
ExecuteRaisesWrapped(r) ==
    [NoResult EXCEPT !.kind = "RuntimeError",
                     !.text = "Unexpected error during execution: {e}", !.cause = r.error]
ExecuteRaises(r) == [NoResult EXCEPT !.kind = "ValueError", !.text = r.error]

\* What execute makes of call_llm's outcome res: the response is returned,
\* an LLMError is raised again, any other exception becomes a RuntimeError
ExecuteOutcome(res) ==
    IF res.kind \in {"return", "LLMError"} THEN res
    ELSE [NoResult EXCEPT !.kind = "RuntimeError",
                          !.text = "Unexpected error during execution: {e}",
                          !.cause = res.text]

\* technique.execute(...), up to call_llm's first transport call: the prompt
\* is generated, then call_llm is entered with it
execute(tech, x, sp, ov, mr, kw) ==
    /\ exec.pc = "idle"
    /\ pc = "idle"
    /\ LET r == generate_prompt(tech, x, kw)
           called == [ExecIdle EXCEPT !.technique = tech, !.input_text = x, !.kwargs = kw]
       IN IF r.ok
          THEN /\ exec' = [called EXCEPT !.pc = "calling", !.prompt = r.value]
               /\ Call("call_llm", ToPrompt(r.value), sp, ov, mr)
          ELSE /\ exec' = [called EXCEPT !.pc = "raised", !.outcome = ExecuteRaises(r)]
               /\ UNCHANGED clientVars
    /\ UNCHANGED <<envVars, pipeVars, regVars, confVars, nestVars, taskVars>>

\* call_llm returned or raised: execute returns or raises in turn
ExecuteFinish ==
    /\ exec.pc = "calling"
    /\ pc \in {"returned", "raised"}
    /\ exec' = [exec EXCEPT !.pc = IF result.kind = "return" THEN "returned" ELSE "raised",
                            !.outcome = ExecuteOutcome(result)]
    /\ UNCHANGED <<envVars, clientVars, pipeVars, regVars, confVars, nestVars, taskVars>>

\* The caller has execute's outcome; the frames of execute and call_llm go
ExecuteDiscard ==
    /\ exec.pc \in {"returned", "raised"}
    /\ exec' = ExecIdle
    /\ Forget
    /\ UNCHANGED <<envVars, pipeVars, regVars, confVars, nestVars, taskVars>>

----------------------------------------------------------------------------
(* proctor/config.py and the head of call_llm*: configurations as objects *)

\* References: 0 is the module-level DEFAULT_LLM_CONFIG object, i > 0 is the
\* i-th dict of dicts, and NoRef is no object
DefaultRef == 0
NoRef == -1

\* DEFAULT_LLM_CONFIG.copy(): a reference to a new dict object
CopyRefShared(ref) == ref
CopyRef(ref) == Len(dicts) + 1

\* The content of the object behind a reference
Deref(ref) == IF ref = DefaultRef THEN DEFAULT_LLM_CONFIG ELSE dicts[ref]

\* The writes of a function body through ref leave the object with content:
\* config[k] = v and config.update(o) change the object they are applied to
Assign(ref, content) ==
    /\ DEFAULT_LLM_CONFIG' = IF ref = DefaultRef THEN content ELSE DEFAULT_LLM_CONFIG
    /\ dicts' = IF ref = DefaultRef THEN dicts
                ELSE IF ref = Len(dicts) + 1 THEN Append(dicts, content)
                ELSE [dicts EXCEPT ![ref] = content]

\* The overrides tried by reference, and what a caller writes into its dict
ConfigOverrides == { [isNone |-> TRUE, dict |-> NoOverride],
                     [isNone |-> FALSE, dict |-> [api_key |-> "call-key"]],
                     [isNone |-> FALSE, dict |-> [model |-> "test-model", max_tokens |-> "50"]] }
CallerValues == {"caller-key"}

\* A caller calls get_llm_config() and keeps the dict it returns
GetLlmConfig ==
    /\ Len(dicts) < MaxConfigs
    /\ LET ref == CopyRef(DefaultRef)
       IN /\ Assign(ref, get_llm_config)
          /\ lastRef' = ref
    /\ UNCHANGED <<environ, clientVars, pipeVars, regVars, execVars, nestVars, taskVars>>

\* The head of call_llm, call_llm_async and the two stream functions:
\* config = get_llm_config(); if config_override: config.update(config_override)
ResolveForCall(ov) ==
    /\ Len(dicts) < MaxConfigs
    /\ LET ref == CopyRef(DefaultRef)
       IN /\ Assign(ref, IF TruthyDict(ov) THEN DictUpdate(get_llm_config, ov.dict)
                         ELSE get_llm_config)
          /\ lastRef' = ref
    /\ UNCHANGED <<environ, clientVars, pipeVars, regVars, execVars, nestVars, taskVars>>

\* The caller changes the dict the latest resolution gave it
CallerWrites(v) ==
    /\ lastRef # NoRef
    /\ Deref(lastRef)["api_key"] # v
    /\ Assign(lastRef, [Deref(lastRef) EXCEPT !["api_key"] = v])
    /\ UNCHANGED <<environ, lastRef, clientVars, pipeVars, regVars, execVars, nestVars, taskVars>>

\* The callers let go of the dicts they hold
DropConfigs ==
    /\ dicts # <<>>
    /\ dicts' = <<>>
    /\ lastRef' = NoRef
    /\ UNCHANGED <<envVars, clientVars, pipeVars, regVars, execVars, nestVars, taskVars>>

----------------------------------------------------------------------------
(* proctor/base.py: CompositeTechnique as a stage of a CompositeTechnique *)

\* The techniques a pipeline is built of: the leaves, an empty pipeline and
\* a pipeline of two leaves
NestTechniques == {Leaf(cls) : cls \in LeafTechniques}
                  \cup { Composite(<<>>),
                         Composite(<<Leaf("RolePrompting"), Leaf("ZeroShotCoT")>>) }

\* No pipeline has been built
NestIdle == [state |-> "idle", a |-> Composite(<<>>), b |-> Composite(<<>>),
             c |-> Composite(<<>>), x |-> <<>>, kw |-> NoKwargs,
             left |-> PromptOk(<<>>), right |-> PromptOk(<<>>), flat |-> PromptOk(<<>>)]

\* A caller builds the three groupings of a, b, c and calls generate_prompt
\* of each with the same arguments
NestGeneratePrompt(a, b, c, x, kw) ==
    /\ nest.state = "idle"
    /\ nest' = [state |-> "done", a |-> a, b |-> b, c |-> c, x |-> x, kw |-> kw,
                left  |-> generate_prompt(Composite(<<Composite(<<a, b>>), c>>), x, kw),
                right |-> generate_prompt(Composite(<<a, Composite(<<b, c>>)>>), x, kw),
                flat  |-> generate_prompt(Composite(<<a, b, c>>), x, kw)]
    /\ UNCHANGED <<envVars, clientVars, pipeVars, regVars, execVars, confVars, taskVars>>

\* The caller lets go of the pipelines
NestDiscard ==
    /\ nest.state = "done"
    /\ nest' = NestIdle
    /\ UNCHANGED <<envVars, clientVars, pipeVars, regVars, execVars, confVars, taskVars>>

----------------------------------------------------------------------------
(* proctor/utils.py: several call_llm_async invocations on one event loop *)

\* The tasks of the event loop
Tasks == {1, 2}

\* What the transport does to a task's call: the exceptions and responses tried
TaskErrors == {"RateLimitError", "Timeout", "AuthenticationError"}
TaskResponses == { [choices |-> <<>>],
                   [choices |-> <<[message |-> Message("Test response")]>>] }

\* A task that runs no invocation
TaskIdle == [pc |-> "idle", max_retries |-> 0, attempts |-> 0, last_error |-> NoneVal,
             calls |-> 0, outcomes |-> <<>>, sleeps |-> <<>>, result |-> NoResult]

\* Whether the event loop can resume task t when what it awaits is there:
\* await litellm.acompletion and await asyncio.sleep suspend the awaiting
\* task only, whereas a blocking sleep would hold the loop's thread
RunnableUnlessSleeper(t) == \A u \in Tasks \ {t} : tasks[u].pc # "sleeping"
Runnable(t) == TRUE

\* Task t enters the while loop with a attempts and last error le: the next
\* acompletion call is awaited, or the code after the loop raises
TaskLoop(t, a, le) ==
    IF LoopCondition(a, tasks[t].max_retries)
    THEN [tasks[t] EXCEPT !.pc = "waiting", !.attempts = a, !.last_error = le,
                          !.calls = tasks[t].calls + 1]
    ELSE [tasks[t] EXCEPT !.pc = "raised", !.attempts = a, !.last_error = le,
                          !.result = IF le # NoneVal
                                     THEN ExhaustedError(tasks[t].max_retries, le)
                                     ELSE UnknownError]

\* The except clauses of call_llm_async in task t, for an exception of
\* class c whose str() is e
TaskHandleException(t, c, e) ==
    IF CaughtAsRetryable("call_llm_async", c)
    THEN IF MayRetry(tasks[t].attempts + 1, tasks[t].max_retries)
         THEN [tasks[t] EXCEPT !.pc = "sleeping", !.last_error = e,
                               !.attempts = tasks[t].attempts + 1,
                               !.sleeps = Append(tasks[t].sleeps,
                                                 RetryDelay(tasks[t].attempts + 1))]
         ELSE [tasks[t] EXCEPT !.pc = "raised", !.last_error = e,
                               !.attempts = tasks[t].attempts + 1,
                               !.result = ExhaustedError(tasks[t].max_retries, e)]
    ELSE [tasks[t] EXCEPT !.pc = "raised", !.result = NonRetryableError(e)]

\* Task t calls call_llm_async('Test prompt', config_override={'api_key': ...},
\* max_retries=mr): the body runs up to its first await
TaskCall(t, mr) ==
    /\ tasks[t].pc = "idle"
    /\ Runnable(t)
    /\ tasks' = [tasks EXCEPT ![t] =
                    [TaskLoop(t, 0, NoneVal) EXCEPT
                        !.max_retries = mr,
                        !.pc = IF LoopCondition(0, mr) THEN "waiting" ELSE "raised",
                        !.calls = IF LoopCondition(0, mr) THEN 1 ELSE 0,
                        !.result = IF LoopCondition(0, mr) THEN NoResult ELSE UnknownError]]
    /\ UNCHANGED <<envVars, clientVars, pipeVars, regVars, execVars, confVars, nestVars>>

\* The acompletion call of task t raises an exception of class c
TaskTransportRaises(t, c) ==
    /\ tasks[t].pc = "waiting"
    /\ Runnable(t)
    /\ tasks' = [tasks EXCEPT ![t] =
                    [TaskHandleException(t, c, c) EXCEPT
                        !.outcomes = Append(tasks[t].outcomes, Raised(c))]]
    /\ UNCHANGED <<envVars, clientVars, pipeVars, regVars, execVars, confVars, nestVars>>

\* The acompletion call of task t returns response r
TaskTransportReturns(t, r) ==
    /\ tasks[t].pc = "waiting"
    /\ Runnable(t)
    /\ tasks' = [tasks EXCEPT ![t] =
                    [(IF ResponseOk(r)
                      THEN [tasks[t] EXCEPT !.pc = "returned",
                                            !.result = Returned(r.choices[1].message.content)]
                      ELSE TaskHandleException(t, "LLMError", UnexpectedFormat))
                     EXCEPT !.outcomes = Append(tasks[t].outcomes, Responded(r))]]
    /\ UNCHANGED <<envVars, clientVars, pipeVars, regVars, execVars, confVars, nestVars>>

\* asyncio.sleep of task t is over: the while condition is evaluated
TaskWake(t) ==
    /\ tasks[t].pc = "sleeping"
    /\ Runnable(t)
    /\ tasks' = [tasks EXCEPT ![t] = TaskLoop(t, tasks[t].attempts, tasks[t].last_error)]
    /\ UNCHANGED <<envVars, clientVars, pipeVars, regVars, execVars, confVars, nestVars>>

\* The invocation of task t is over and its frame is discarded
TaskDone(t) ==
    /\ tasks[t].pc \in {"returned", "raised"}
    /\ tasks' = [tasks EXCEPT ![t] = TaskIdle]
    /\ UNCHANGED <<envVars, clientVars, pipeVars, regVars, execVars, confVars, nestVars>>

----------------------------------------------------------------------------
(* Specifications *)

InitEnv ==
    \E k \in EnvKeys, mdl \in EnvModels :
        /\ environ = [OPENROUTER_API_KEY |-> k, OPENROUTER_MODEL |-> mdl]
        /\ DEFAULT_LLM_CONFIG = DefaultConfigAtImport(k)

InitPipeline ==
    /\ techniques = <<>>
    /\ kwargs = NoKwargs
    /\ input_text = <<>>
    /\ stage = 0
    /\ cur = <<>>
    /\ stageLog = <<>>
    /\ pipeResult = PipeIdle

\* At import the cache is empty: _TECHNIQUE_INSTANCES = {}
InitRegistry ==
    /\ _TECHNIQUE_INSTANCES = [n \in {} |-> NoInstance]
    /\ heap = {}
    /\ threads = [t \in Threads |-> ThreadIdle]
    /\ handedOut = {}

InitExecute == exec = ExecIdle

InitConfig == dicts = <<>> /\ lastRef = NoRef

InitNest == nest = NestIdle

InitTasks == tasks = [t \in Tasks |-> TaskIdle]

Init == InitEnv /\ InitClient /\ InitPipeline /\ InitRegistry /\ InitExecute /\ InitConfig
        /\ InitNest /\ InitTasks

\* max_retries as a caller passes it; the stream functions have no such parameter
RetriesTried(m) == IF m \in StreamModes THEN {0} ELSE (-1) .. MaxRetriesBound

Next ==
    \/ \E m \in Modes, p \in Prompts, sp \in SystemPrompts, ov \in OverrideArgs :
         \E mr \in RetriesTried(m) : Invoke(m, p, sp, ov, mr)
    \/ ConsumerNext
    \/ ConsumerClose
    \/ Request
    \/ \E c \in TransportErrors : TransportRaises(c)
    \/ \E r \in Responses : TransportReturns(r)
    \/ TransportStreams
    \/ Wake
    \/ \E f \in Frames : StreamFrame(f)
    \/ StreamEnds
    \/ \E c \in StreamErrors : StreamRaises(c)
    \/ Discard
    \/ \E k \in EnvKeys, mdl \in EnvModels : SetEnv(k, mdl)

Spec == Init /\ [][Next]_vars

\* The same, where every transport call answers and every sleep returns:
\* a call that is due is made, a pending call returns or raises, a sleeping
\* invocation wakes up
SpecLive ==
    /\ Init
    /\ [][Next]_vars
    /\ WF_vars(Request)
    /\ WF_vars((\E c \in TransportErrors : TransportRaises(c))
                  \/ (\E r \in Responses : TransportReturns(r))
                  \/ TransportStreams)
    /\ WF_vars(Wake)

NextPipeline ==
    \/ \E ts \in TechniqueLists(MaxStages), x \in InputTexts, kw \in KwargsTried :
         CompositeGeneratePrompt(ts, x, kw)
    \/ CompositeStage
    \/ CompositeReturn
    \/ CompositeDiscard

SpecPipeline == Init /\ [][NextPipeline]_vars

\* PromptTechnique.execute, one call at a time, against the same transport
NextExecute ==
    \/ \E tech \in ExecTechniques, x \in InputTexts, sp \in SystemPrompts,
          ov \in ExecOverrides, mr \in ExecRetries, kw \in ExecKwargs :
            execute(tech, x, sp, ov, mr, kw)
    \/ Request
    \/ \E c \in TransportErrors : TransportRaises(c)
    \/ \E r \in Responses : TransportReturns(r)
    \/ Wake
    \/ ExecuteFinish
    \/ ExecuteDiscard

SpecExecute == Init /\ [][NextExecute]_vars

\* Configuration resolutions one after the other, between changes of the
\* environment and of the dicts the callers hold
NextConfig ==
    \/ GetLlmConfig
    \/ \E ov \in ConfigOverrides : ResolveForCall(ov)
    \/ \E v \in CallerValues : CallerWrites(v)
    \/ DropConfigs
    \/ \E k \in EnvKeys, mdl \in EnvModels : SetEnv(k, mdl)

SpecConfig == Init /\ [][NextConfig]_vars

\* Pipelines of pipelines
NextNest ==
    \/ \E a \in NestTechniques, b \in NestTechniques, c \in NestTechniques,
          x \in InputTexts, kw \in KwargsTried : NestGeneratePrompt(a, b, c, x, kw)
    \/ NestDiscard

SpecNest == Init /\ [][NextNest]_vars

\* Concurrent call_llm_async invocations, interleaved at their awaits
NextTasks ==
    \/ \E t \in Tasks, mr \in (-1) .. MaxRetriesBound : TaskCall(t, mr)
    \/ \E t \in Tasks, c \in TaskErrors : TaskTransportRaises(t, c)
    \/ \E t \in Tasks, r \in TaskResponses : TaskTransportReturns(t, r)
    \/ \E t \in Tasks : TaskWake(t)
    \/ \E t \in Tasks : TaskDone(t)

SpecTasks == Init /\ [][NextTasks]_vars

\* One caller: the registry's functions run one after the other
NextRegistry ==
    \/ \E name \in NamesTried : get_technique(1, name)
    \/ GetStore(1)
    \/ \E category \in CategoriesTried : list_techniques(1, category)
    \/ ListCheck(1)
    \/ ListStore(1)
    \/ ListReturn(1)
    \/ ThreadResumes(1)

SpecRegistry == Init /\ [][NextRegistry]_vars

\* Two callers: a lookup in thread 1 runs concurrently with a lookup or a
\* listing in thread 2
NextRegistryThreads ==
    \/ \E t \in Threads, name \in NamesRaced : get_technique(t, name)
    \/ \E t \in Threads : GetStore(t)
    \/ \E category \in CategoriesRaced : list_techniques(2, category)
    \/ ListCheck(2)
    \/ ListStore(2)
    \/ ListReturn(2)
    \/ \E t \in Threads : ThreadResumes(t)

SpecRegistryThreads == Init /\ [][NextRegistryThreads]_vars

----------------------------------------------------------------------------
(* The claims about the invocation client *)

NonStreamModes == Modes \ StreamModes

\* The prompt passes the validation the claims describe: a non-empty string
ValidPrompt == prompt.type = "str" /\ prompt.value # ""

\* The first k transport calls all raised an exception the mode retries
FirstAllRetryable(k) ==
    \A i \in 1..k : outcomes[i].kind = "raise" /\ CaughtAsRetryable(mode, outcomes[i].exc)

\* The last transport call returned a response with a choice and a message
LastIsSuccess ==
    /\ outcomes # <<>>
    /\ outcomes[Len(outcomes)].kind = "response"
    /\ outcomes[Len(outcomes)].response.choices # <<>>
    /\ ~outcomes[Len(outcomes)].response.choices[1].message.isNone

\* C1: in call_llm with max_retries >= 0, when the transport fails with a
\* retryable error k <= max_retries times and then succeeds, the call returns
\* the content of that response after exactly k+1 transport calls and exactly k
\* sleeps, the i-th lasting 2^i and made between call i and call i+1.
C1_RetryThenSuccess ==
    (mode = "call_llm" /\ max_retries >= 0 /\ pc # "idle") =>
        /\ Len(sleeps) <= Len(calls)
        /\ Len(calls) <= Len(sleeps) + 1
        /\ \A i \in 1..Len(sleeps) : sleeps[i] = [delay |-> 2 ^ i, after |-> i]
        /\ LET k == Len(outcomes) - 1
           IN (LastIsSuccess /\ FirstAllRetryable(k) /\ k <= max_retries) =>
                /\ pc = "returned"
                /\ result = Returned(outcomes[k + 1].response.choices[1].message.content)
                /\ Len(calls) = k + 1
                /\ Len(sleeps) = k

C1_Witness ==
    /\ mode = "call_llm"
    /\ pc = "returned"
    /\ Len(calls) = 3
    /\ Len(sleeps) = 2
    /\ result.value = "Test response"

\* C2: in call_llm with max_retries >= 0, when every attempt fails with a
\* retryable error, the call goes on until max_retries + 1 transport calls are
\* made and then raises the exhausted-retries LLMError, after exactly
\* max_retries sleeps: no sleep follows the last failure.
C2_RetriesExhausted ==
    (mode = "call_llm" /\ max_retries >= 0 /\ outcomes # <<>>
        /\ FirstAllRetryable(Len(outcomes))) =>
        /\ Len(calls) <= max_retries + 1
        /\ IF Len(outcomes) = max_retries + 1
           THEN /\ pc = "raised"
                /\ result.kind = "LLMError"
                /\ result.text = "Error after {n} retries: {e}"
                /\ Len(calls) = max_retries + 1
                /\ Len(sleeps) = max_retries
           ELSE pc \in {"request", "waiting", "sleeping"}

C2_Witness ==
    /\ mode = "call_llm"
    /\ max_retries = 2
    /\ pc = "raised"
    /\ Len(outcomes) = 3
    /\ FirstAllRetryable(3)

\* C3: in call_llm and call_llm_async, for every max_retries, when the first
\* attempt fails with an error outside the mode's retryable set, the call
\* raises LLMError at once: one transport call, no sleep.
C3_FatalFirstAttempt ==
    (mode \in NonStreamModes /\ outcomes # <<>> /\ outcomes[1].kind = "raise"
        /\ ~CaughtAsRetryable(mode, outcomes[1].exc)) =>
        /\ pc = "raised"
        /\ result.kind = "LLMError"
        /\ result.text = "Error calling LLM: {e}"
        /\ result.cause = outcomes[1].exc
        /\ Len(calls) = 1
        /\ Len(outcomes) = 1
        /\ sleeps = <<>>

C3_Witness ==
    /\ mode = "call_llm_async"
    /\ max_retries = 2
    /\ pc = "raised"
    /\ outcomes = <<Raised("AuthenticationError")>>

\* C4: in all four modes, for every configuration and max_retries, a prompt
\* that is empty or not a string never leads to a transport call, and the
\* function body fails with ValueError in its first step: at the call in
\* call_llm and call_llm_async, at the first request for a chunk in the two
\* stream modes, whose call only creates the generator.
C4_InvalidPrompt ==
    (pc # "idle" /\ (prompt.type # "str" \/ prompt.value = "")) =>
        /\ calls = <<>>
        /\ outcomes = <<>>
        /\ pc \in {"raised", "created", "closed"}
        /\ pc = "raised" => result = ValueError
        /\ mode \in NonStreamModes => pc = "raised"

C4_Witness ==
    /\ mode = "call_llm_async_stream"
    /\ prompt.type = "int"
    /\ pc = "raised"
    /\ result = ValueError
    /\ environ["OPENROUTER_API_KEY"] = "env-key"

\* The credential of the effective configuration: the override's when the
\* override sets one, else the environment's when it holds a non-empty one,
\* else the baseline's
EffectiveKey ==
    IF ~config_override.isNone /\ "api_key" \in DOMAIN config_override.dict
    THEN config_override.dict["api_key"]
    ELSE IF environ["OPENROUTER_API_KEY"] \notin {Unset, ""}
         THEN environ["OPENROUTER_API_KEY"]
         ELSE DEFAULT_LLM_CONFIG["api_key"]

\* C5: in every mode, with a valid prompt and an effective configuration whose
\* api_key is empty or missing, the function body fails in its first step with
\* the 'Missing API key' LLMError and no transport call is made; and no
\* transport call is ever made with an empty or missing credential.
C5_MissingCredential ==
    /\ \A i \in 1..Len(calls) :
          calls[i].api_key \notin {"", NoneVal, Unset} /\ calls[i].api_key = EffectiveKey
    /\ (pc # "idle" /\ ValidPrompt /\ EffectiveKey \in {"", NoneVal}) =>
          /\ calls = <<>>
          /\ pc \in {"raised", "created", "closed"}
          /\ pc = "raised" => result = MissingKeyError
          /\ mode \in NonStreamModes => pc = "raised"

C5_Witness ==
    /\ pc = "raised"
    /\ result = MissingKeyError
    /\ ValidPrompt
    /\ environ["OPENROUTER_API_KEY"] = "env-key"
    /\ ~config_override.isNone
    /\ config_override.dict = [api_key |-> NoneVal]

\* C6 (as claimed): in call_llm and call_llm_async, for every max_retries, a
\* BadRequestError on the first attempt ends the call: it raises after exactly
\* one transport call, with no sleep and no retry.
C6_BadRequestFatal ==
    (mode \in NonStreamModes /\ outcomes # <<>>
        /\ outcomes[1] = Raised("BadRequestError")) =>
        /\ pc = "raised"
        /\ Len(calls) = 1
        /\ sleeps = <<>>

\* C7 (as claimed): in call_llm and in call_llm_async alike, with
\* max_retries >= 1, a Timeout on the first attempt is retried: the call sleeps
\* once, and a success on the second attempt is returned after two transport
\* calls.
C7_TimeoutRetried ==
    (mode \in NonStreamModes /\ max_retries >= 1 /\ outcomes # <<>>
        /\ outcomes[1] = Raised("Timeout")) =>
        /\ Len(outcomes) = 1 => pc = "sleeping" /\ Len(sleeps) = 1
        /\ (Len(outcomes) = 2 /\ LastIsSuccess) =>
              /\ pc = "returned"
              /\ result = Returned(outcomes[2].response.choices[1].message.content)
              /\ Len(calls) = 2
              /\ Len(sleeps) = 1

\* The response has no choice, or its first choice has no message or a
\* message whose content is missing or empty
MalformedResponse(r) ==
    \/ r.choices = <<>>
    \/ r.choices[1].message.isNone
    \/ r.choices[1].message.content \in {"", NoneVal}

\* C8 (as claimed): in call_llm and call_llm_async, a response with no choice,
\* or whose first choice has a missing or empty content, makes the call raise
\* the 'unexpected response format' LLMError without another attempt; the call
\* never returns an empty or missing content.
C8_ResponseValidated ==
    /\ (mode \in NonStreamModes /\ pc = "returned") => result.value \notin {"", NoneVal}
    /\ (mode \in NonStreamModes /\ outcomes # <<>>
          /\ outcomes[Len(outcomes)].kind = "response"
          /\ MalformedResponse(outcomes[Len(outcomes)].response)) =>
          /\ pc = "raised"
          /\ result = NonRetryableError(UnexpectedFormat)

\* The call raised the exhausted-retries error
Exhausted == pc = "raised" /\ result.text = "Error after {n} retries: {e}"

----------------------------------------------------------------------------
(* The claims about CompositeTechnique *)

\* Tn.generate_prompt(... T1.generate_prompt(x, **kw) ..., **kw): the nested
\* application, from the last technique of ts inwards
RECURSIVE Nested(_, _, _)
Nested(ts, x, kw) ==
    IF ts = <<>> THEN x
    ELSE TechniqueGeneratePrompt(ts[Len(ts)],
                                 Nested(SubSeq(ts, 1, Len(ts) - 1), x, kw), kw).value

\* C10: when every stage succeeds, CompositeTechnique.generate_prompt returns
\* Tn(...T1(x)...) (x itself for an empty list): the stages were called once
\* each in list order, stage 1 with x and stage i+1 with stage i's output,
\* every stage with the caller's kwargs.
C10_PipelineIsComposition ==
    /\ \A i \in 1..Len(stageLog) :
          /\ stageLog[i].index = i
          /\ stageLog[i].technique = techniques[i]
          /\ stageLog[i].kwargs = kwargs
          /\ stageLog[i].input_text = Nested(SubSeq(techniques, 1, i - 1), input_text, kwargs)
    /\ pipeResult.state = "return" =>
          /\ Len(stageLog) = Len(techniques)
          /\ pipeResult.value = Nested(techniques, input_text, kwargs)

C10_Witness ==
    /\ pipeResult.state = "return"
    /\ techniques = <<"RolePrompting", "ZeroShotCoT", "EmotionPrompting">>
    /\ kwargs = [role |-> "teacher", domain |-> "physics"]
    /\ Len(pipeResult.value) = 8

\* C11: when stage i of a pipeline raises a validation error, the pipeline
\* call raises that same error, unchanged; stage i is the last stage called
\* and the call returns no output, partial or otherwise.
C11_StageFailurePropagates ==
    /\ \A i \in 1..Len(stageLog) :
          LET r == TechniqueGeneratePrompt(stageLog[i].technique,
                                           stageLog[i].input_text, stageLog[i].kwargs)
          IN ~r.ok => /\ i = Len(stageLog)
                      /\ pipeResult.state = "ValueError"
                      /\ pipeResult.error = r.error
                      /\ pipeResult.value = <<>>
    /\ pipeResult.state = "ValueError" =>
          /\ stageLog # <<>>
          /\ ~TechniqueGeneratePrompt(stageLog[Len(stageLog)].technique,
                                      stageLog[Len(stageLog)].input_text,
                                      stageLog[Len(stageLog)].kwargs).ok

C11_Witness ==
    /\ pipeResult.state = "ValueError"
    /\ techniques = <<"RolePrompting", "FewShotCoT", "EmotionPrompting">>
    /\ Len(stageLog) = 2
    /\ pipeResult.error = "Example fields must be non-empty strings"

----------------------------------------------------------------------------
(* The claims about the technique registry *)

\* The registered names
Registered == {Keys[i] : i \in 1..Len(Keys)}

\* The registered names whose class's identifier starts with p, in
\* registration order
ExpectedListing(p) ==
    LET matches(e) == /\ Len(p) <= Len(ClassIdentifier[e.cls])
                      /\ SubSeq(ClassIdentifier[e.cls], 1, Len(p)) = p
        sel == SelectSeq(ALL_TECHNIQUES, matches)
    IN [i \in 1..Len(sel) |-> sel[i].name]

\* C12: with one caller, every get_technique lookup of a registered name
\* returns one and the same instance, and that instance stays the cached one:
\* it is the only instance its class ever gets.
C12_LookupIsStable ==
    /\ \A a, b \in handedOut : a.name = b.name => a.instance = b.instance
    /\ \A h \in handedOut : /\ h.name \in Registered
                             /\ h.name \in DOMAIN _TECHNIQUE_INSTANCES
                             /\ _TECHNIQUE_INSTANCES[h.name] = h.instance
    /\ \A o \in heap : o.id = 1
    /\ \A n \in DOMAIN _TECHNIQUE_INSTANCES : _TECHNIQUE_INSTANCES[n] \in heap

C12_Witness ==
    /\ threads[1].pc = "returned"
    /\ threads[1].op = "get_technique"
    /\ threads[1].name = "chain_of_thought"
    /\ threads[1].instance = NoInstance
    /\ threads[1].returned = [cls |-> "ChainOfThought", id |-> 1]
    /\ [name |-> "zero_shot_cot", instance |-> [cls |-> "ZeroShotCoT", id |-> 1]] \in handedOut

\* C13: get_technique with a name that is not registered returns None in one
\* step that leaves the cache as it was, and the cache's keys are always
\* registered names.
C13_UnknownNameIsNone ==
    [][ /\ DOMAIN _TECHNIQUE_INSTANCES' \subseteq Registered
        /\ \A t \in Threads :
              (threads[t].pc = "idle" /\ threads'[t].op = "get_technique"
                 /\ threads'[t].name \notin Registered) =>
                    /\ threads'[t].pc = "returned"
                    /\ threads'[t].returned = NoInstance
                    /\ _TECHNIQUE_INSTANCES' = _TECHNIQUE_INSTANCES ]_vars

C13_Witness ==
    /\ threads[1].pc = "returned"
    /\ threads[1].op = "get_technique"
    /\ threads[1].name = "nonexistent_technique"
    /\ threads[1].returned = NoInstance
    /\ DOMAIN _TECHNIQUE_INSTANCES = {"chain_of_thought"}

\* C14: list_techniques(category=p) returns exactly the registered names
\* whose identifier starts with p, once each and in registration order,
\* whatever the cache held when it was called; a prefix that matches nothing
\* gives the empty list, and names that share an identifier are all returned.
C14_ListingByPrefix ==
    \A t \in Threads :
        (threads[t].pc = "returned" /\ threads[t].op = "list_techniques") =>
            threads[t].names = ExpectedListing(threads[t].category.value)

C14_Witness ==
    /\ threads[1].pc = "returned"
    /\ threads[1].op = "list_techniques"
    /\ threads[1].category = Category(<<"2", ".", "2", ".", "1", ".", "2">>)
    /\ threads[1].names = <<"exemplar_selection", "sgicl", "vote_k", "prompt_mining", "knn">>
    /\ handedOut # {}

\* C15: under every interleaving of two concurrent first-time lookups (two
\* get_technique calls, or get_technique and list_techniques with a
\* category), every caller receives the same instance and it stays cached.
C15_OneInstanceUnderRaces ==
    /\ \A a, b \in handedOut : a.name = b.name => a.instance = b.instance
    /\ \A h \in handedOut : /\ h.name \in DOMAIN _TECHNIQUE_INSTANCES
                             /\ _TECHNIQUE_INSTANCES[h.name] = h.instance

----------------------------------------------------------------------------
(* The claims about PromptTechnique.execute *)

\* C16: execute generates the prompt before the configuration is resolved
\* and before any transport call: when generate_prompt raises a ValueError,
\* execute raises that ValueError unchanged, call_llm is never entered and
\* the transport is never called; otherwise call_llm gets the generated
\* prompt.
C16_PromptGeneratedFirst ==
    exec.pc # "idle" =>
        LET r == generate_prompt(exec.technique, exec.input_text, exec.kwargs)
        IN IF r.ok
           THEN /\ exec.prompt = r.value
                /\ prompt = ToPrompt(r.value)
                /\ pc # "idle"
           ELSE /\ exec.pc = "raised"
                /\ exec.outcome.kind = "ValueError"
                /\ exec.outcome.text = r.error
                /\ pc = "idle"
                /\ config = NoOverride
                /\ calls = <<>>

C16_Witness ==
    /\ exec.pc = "raised"
    /\ exec.technique = Leaf("ZeroShotCoT")
    /\ exec.input_text = NonStr("int", "123")
    /\ exec.outcome.kind = "ValueError"
    /\ exec.outcome.text = "input_text must be a non-empty string"
    /\ calls = <<>>

\* C17: for every technique, leaf or composite, the empty pipeline included,
\* execute with an input_text that is empty or not a string raises a
\* ValueError that reaches the caller as a ValueError, and the transport is
\* never called.
C17_EmptyInputRejected ==
    (exec.pc # "idle" /\ (exec.input_text = <<>> \/ ~IsStrText(exec.input_text))) =>
        /\ calls = <<>>
        /\ exec.pc # "returned"
        /\ exec.pc = "raised" => exec.outcome.kind = "ValueError"

----------------------------------------------------------------------------
(* The claims about the configuration *)

\* An invocation has resolved its configuration
Resolved == pc \notin {"idle", "created"} /\ config # NoOverride

\* C18: the configuration of a call is resolved field by field: a field of
\* the override has the override's value; any other field has the
\* environment's value when it is api_key or model and the environment sets
\* it, and DEFAULT_LLM_CONFIG's value otherwise.  No field depends on another.
C18_FieldByFieldPrecedence ==
    Resolved =>
        /\ DOMAIN config = DOMAIN DEFAULT_LLM_CONFIG \cup DOMAIN config_override.dict
        /\ \A f \in DOMAIN config :
              config[f] =
                IF f \in DOMAIN config_override.dict THEN config_override.dict[f]
                ELSE IF f = "api_key" /\ environ["OPENROUTER_API_KEY"] \notin {Unset, ""}
                THEN environ["OPENROUTER_API_KEY"]
                ELSE IF f = "model" /\ environ["OPENROUTER_MODEL"] \notin {Unset, ""}
                THEN environ["OPENROUTER_MODEL"]
                ELSE DEFAULT_LLM_CONFIG[f]

C18_Witness ==
    /\ Resolved
    /\ environ = [OPENROUTER_API_KEY |-> "env-key", OPENROUTER_MODEL |-> "env-model"]
    /\ config_override.dict = [model |-> "test-model", max_tokens |-> "50"]
    /\ config = [ model |-> "test-model", api_base |-> "https://openrouter.ai/api/v1",
                  api_key |-> "env-key", max_tokens |-> "50", temperature |-> "0.7" ]

\* C20: without a credential in the override, the resolved credential is the
\* environment's value at the time of the resolution when one is set, and
\* the empty credential when none is set at that time, whatever the
\* environment held earlier.
C20_CredentialReadAtResolution ==
    (Resolved /\ "api_key" \notin DOMAIN config_override.dict) =>
        config["api_key"] =
            IF environ["OPENROUTER_API_KEY"] \notin {Unset, ""}
            THEN environ["OPENROUTER_API_KEY"] ELSE ""

\* C19: no get_llm_config call and no resolution of call_llm* changes
\* DEFAULT_LLM_CONFIG, whatever the override; every resolution returns a
\* new dict, which is neither the default nor a dict returned earlier, and
\* leaves the dicts returned earlier as they are.
C19_DefaultNeverMutated ==
    [][ /\ DEFAULT_LLM_CONFIG' = DEFAULT_LLM_CONFIG
        /\ (lastRef' # lastRef /\ lastRef' # NoRef) =>
              /\ lastRef' # DefaultRef
              /\ lastRef' \notin 1..Len(dicts)
              /\ lastRef' \in 1..Len(dicts')
              /\ \A i \in 1..Len(dicts) : dicts'[i] = dicts[i] ]_vars

C19_Witness ==
    /\ Len(dicts) = 2
    /\ lastRef = 2
    /\ dicts[1]["api_key"] = "call-key"
    /\ dicts[2]["api_key"] = ""
    /\ DEFAULT_LLM_CONFIG["api_key"] = ""

----------------------------------------------------------------------------
(* The claims about the stream modes *)

\* The except tuple a stream mode would share with its non-stream counterpart
StreamRetryable(c) ==
    CaughtAsRetryable(IF mode \in AsyncModes THEN "call_llm_async" ELSE "call_llm", c)

\* The last transport outcome is an exception
LastRaised == outcomes # <<>> /\ outcomes[Len(outcomes)].kind = "raise"

\* The contents of the frames fs that have one, in frame order
RECURSIVE ContentsOf(_)
ContentsOf(fs) ==
    IF fs = <<>> THEN <<>>
    ELSE (IF Head(fs).choices # <<>> /\ Head(fs).choices[1].delta.content \notin {"", NoneVal}
          THEN <<Head(fs).choices[1].delta.content>> ELSE <<>>) \o ContentsOf(Tail(fs))

\* The concatenation of the strings ss
RECURSIVE Join(_)
Join(ss) == IF ss = <<>> THEN "" ELSE Head(ss) \o Join(Tail(ss))

\* C21: in the stream modes a retryable failure of the connection, before
\* any chunk, is retried with a backoff of 2^attempt, and the stream fails
\* only after the retries.
C21_StreamConnectionRetried ==
    (mode \in StreamModes /\ pc = "raised" /\ chunks = <<>> /\ frames = <<>>
       /\ LastRaised /\ StreamRetryable(outcomes[Len(outcomes)].exc)) =>
        /\ Len(calls) >= 2
        /\ sleeps # <<>>
        /\ sleeps[1].delay = 2

\* C22: in the stream modes, a transport failure after the first chunk is
\* fatal whatever its class: the consumer gets an LLMError with that cause
\* after the chunks delivered so far, the transport was called once and is
\* not called again, and every chunk was emitted once, in frame order.
C22_MidStreamFailureFatal ==
    (mode \in StreamModes /\ chunks # <<>> /\ LastRaised) =>
        /\ pc = "raised"
        /\ result = StreamingError(outcomes[Len(outcomes)].exc)
        /\ Len(calls) = 1
        /\ sleeps = <<>>
        /\ chunks = ContentsOf(frames)

C22_Witness ==
    /\ mode = "call_llm_stream"
    /\ pc = "raised"
    /\ chunks = <<"Hel">>
    /\ Len(frames) = 2
    /\ LastRaised
    /\ outcomes[Len(outcomes)].exc = "Timeout"
    /\ result.kind = "LLMError"

\* C23: the chunks of a stream that ended are the non-empty contents of its
\* frames in frame order (frames without a choice or content are skipped),
\* and their concatenation is the content a non-stream call returns for the
\* response that carries the frames' contents in one message.
C23_ChunksConcatenateToResponse ==
    (mode \in StreamModes /\ pc \in {"streaming", "yielded", "returned"}) =>
        /\ chunks = ContentsOf(frames)
        /\ \A i \in 1..Len(chunks) : chunks[i] \notin {"", NoneVal}
        /\ pc = "returned" =>
              LET r == [choices |-> <<[message |-> Message(Join(ContentsOf(frames)))]>>]
              IN /\ result = StopIteration
                 /\ ResponseOk(r)
                 /\ Returned(Join(chunks)) = Returned(r.choices[1].message.content)

C23_Witness ==
    /\ mode = "call_llm_async_stream"
    /\ pc = "returned"
    /\ chunks = <<"Hel", "lo">>
    /\ Join(chunks) = "Hello"

\* C24: a stream reads frames only while the consumer is asking for the next
\* chunk, and once the consumer has closed or dropped it no frame is read and
\* no chunk is produced any more.
C24_StreamOnDemand ==
    [][ /\ (frames' # frames /\ frames' # <<>>) => pc = "streaming"
        /\ (chunks' # chunks /\ chunks' # <<>>) => pc = "streaming"
        /\ pc \in {"yielded", "created"} => (calls' = calls /\ frames' = frames)
        /\ pc = "closed" => pc' \in {"closed", "idle"} ]_vars

C24_Witness ==
    /\ mode \in StreamModes
    /\ pc = "closed"
    /\ chunks = <<"Hel">>
    /\ Len(frames) = 1

----------------------------------------------------------------------------
(* Further claims about the retry loop *)

\* C27: in call_llm and call_llm_async, when the transport raises retryable
\* errors on attempts 1..j-1 (j-1 <= max_retries) and an error that is not
\* retryable on attempt j, the call fails at attempt j with the LLMError for a
\* non-retryable error that carries that last cause, after exactly j
\* transport calls and j-1 sleeps.
C27_FatalAfterRetries ==
    LET j == Len(outcomes)
    IN (mode \in NonStreamModes /\ j >= 1 /\ max_retries >= 0
          /\ FirstAllRetryable(j - 1) /\ j - 1 <= max_retries
          /\ outcomes[j].kind = "raise"
          /\ ~CaughtAsRetryable(mode, outcomes[j].exc)) =>
            /\ pc = "raised"
            /\ result = [NoResult EXCEPT !.kind = "LLMError",
                                         !.text = "Error calling LLM: {e}",
                                         !.cause = outcomes[j].exc]
            /\ Len(calls) = j
            /\ Len(sleeps) = j - 1

C27_Witness ==
    /\ mode = "call_llm"
    /\ max_retries = 2
    /\ Len(outcomes) = 3
    /\ outcomes[1].exc = "RateLimitError"
    /\ outcomes[2].exc = "BadRequestError"
    /\ outcomes[3].exc = "AuthenticationError"
    /\ pc = "raised"
    /\ result.cause = "AuthenticationError"

\* max(n, 0)
AtLeastZero(n) == IF n < 0 THEN 0 ELSE n

\* C28: for every max_retries and every sequence of transport outcomes,
\* call_llm and call_llm_async make at most max_retries + 1 transport calls,
\* the attempt counter never exceeds max_retries + 1, and, when every
\* transport call and every sleep returns, the call ends: it returns content
\* or raises.
C28_RetryLoopTerminates ==
    /\ [](mode \in NonStreamModes =>
            /\ Len(calls) <= AtLeastZero(max_retries + 1)
            /\ attempts <= AtLeastZero(max_retries + 1))
    /\ (mode \in NonStreamModes /\ pc \in {"request", "waiting", "sleeping"})
          ~> (pc \in {"returned", "raised"})

C28_Witness ==
    /\ mode = "call_llm_async"
    /\ max_retries = 2
    /\ pc = "raised"
    /\ Len(calls) = 3
    /\ attempts = 3

----------------------------------------------------------------------------
(* A further claim about the registry *)

\* C30: list_techniques without a category (None or '') returns every
\* registered name and leaves the cache as it is; with a non-empty category
\* it leaves every instance that is cached where it is, and when it returns
\* the cache holds an instance for every registered name, matching or not.
C30_ListingFillsCache ==
    [][ \A t \in Threads :
          /\ (threads[t].pc = "idle" /\ threads'[t].op = "list_techniques"
                 /\ (threads'[t].category.isNone \/ threads'[t].category.value = <<>>)) =>
                /\ threads'[t].pc = "returned"
                /\ threads'[t].names = Keys
                /\ _TECHNIQUE_INSTANCES' = _TECHNIQUE_INSTANCES
          /\ (threads[t].op = "list_techniques" \/ threads'[t].op = "list_techniques") =>
                \A n \in DOMAIN _TECHNIQUE_INSTANCES :
                    /\ n \in DOMAIN _TECHNIQUE_INSTANCES'
                    /\ _TECHNIQUE_INSTANCES'[n] = _TECHNIQUE_INSTANCES[n]
          /\ (threads'[t].op = "list_techniques" /\ threads'[t].pc = "returned"
                 /\ ~threads'[t].category.isNone /\ threads'[t].category.value # <<>>) =>
                DOMAIN _TECHNIQUE_INSTANCES' = Registered ]_vars

C30_Witness ==
    /\ threads[1].op = "list_techniques"
    /\ threads[1].pc = "returned"
    /\ threads[1].category = Category(<<"n", "o", "n", "e", "x", "i", "s", "t", "e", "n", "t">>)
    /\ threads[1].names = <<>>
    /\ DOMAIN _TECHNIQUE_INSTANCES = Registered
    /\ handedOut # {}

----------------------------------------------------------------------------
(* The claim about nested pipelines *)

\* The number of leaf generate_prompt calls that generate_prompt of tech
\* makes: all of them when it succeeds, those up to the failing one otherwise
RECURSIVE CallsMade(_, _, _)
RECURSIVE CallsInLoop(_, _, _)
CallsMade(tech, x, kw) ==
    IF tech.composite THEN CallsInLoop(tech.techniques, x, kw) ELSE 1
CallsInLoop(ts, x, kw) ==
    IF ts = <<>> THEN 0
    ELSE LET r == generate_prompt(Head(ts), x, kw)
         IN CallsMade(Head(ts), x, kw)
            + (IF r.ok THEN CallsInLoop(Tail(ts), r.value, kw) ELSE 0)

\* C26: a CompositeTechnique is usable as a stage, and nesting is
\* associative: Composite([Composite([A, B]), C]), Composite([A,
\* Composite([B, C])]) and Composite([A, B, C]) give the same prompt for the
\* same arguments, or fail at the same leaf stage with the same error.
C26_NestingIsAssociative ==
    nest.state = "done" =>
        /\ nest.left = nest.flat
        /\ nest.right = nest.flat
        /\ CallsMade(Composite(<<Composite(<<nest.a, nest.b>>), nest.c>>), nest.x, nest.kw)
             = CallsMade(Composite(<<nest.a, nest.b, nest.c>>), nest.x, nest.kw)
        /\ CallsMade(Composite(<<nest.a, Composite(<<nest.b, nest.c>>)>>), nest.x, nest.kw)
             = CallsMade(Composite(<<nest.a, nest.b, nest.c>>), nest.x, nest.kw)

C26_Witness ==
    /\ nest.state = "done"
    /\ nest.a = Leaf("RolePrompting")
    /\ nest.b = Composite(<<Leaf("RolePrompting"), Leaf("ZeroShotCoT")>>)
    /\ nest.c = Leaf("EmotionPrompting")
    /\ nest.x = <<Text("Explain quantum computing.")>>
    /\ nest.flat.ok
    /\ Len(nest.flat.value) = 10
    /\ nest.left = nest.flat

C26_WitnessFailure ==
    /\ nest.state = "done"
    /\ nest.a = Leaf("RolePrompting")
    /\ nest.b = Leaf("FewShotCoT")
    /\ nest.c = Leaf("EmotionPrompting")
    /\ ~nest.flat.ok
    /\ nest.right.error = "Example fields must be non-empty strings"

----------------------------------------------------------------------------
(* The claim about concurrent call_llm_async invocations *)

\* What call_llm_async with max_retries mr makes of the transport outcomes
\* outs alone, from a attempts and last error le on; NoResult while the
\* outcomes do not decide it yet
RECURSIVE Replay(_, _, _, _)
Replay(mr, outs, a, le) ==
    IF a > mr
    THEN (IF le = NoneVal
          THEN [NoResult EXCEPT !.kind = "LLMError",
                                !.text = "Unknown error occurred when calling LLM"]
          ELSE [NoResult EXCEPT !.kind = "LLMError",
                                !.text = "Error after {n} retries: {e}",
                                !.n = mr, !.cause = le])
    ELSE IF outs = <<>> THEN NoResult
    ELSE LET o == Head(outs)
         IN IF o.kind = "response"
            THEN (IF o.response.choices # <<>>
                  THEN Returned(o.response.choices[1].message.content)
                  ELSE [NoResult EXCEPT !.kind = "LLMError",
                                        !.text = "Error calling LLM: {e}",
                                        !.cause = UnexpectedFormat])
            ELSE IF o.exc \in {"RateLimitError", "Timeout"}
            THEN Replay(mr, Tail(outs), a + 1, o.exc)
            ELSE [NoResult EXCEPT !.kind = "LLMError",
                                  !.text = "Error calling LLM: {e}", !.cause = o.exc]

\* C25: with several call_llm_async tasks on one event loop, a task that
\* waits for the network or sleeps in backoff never keeps another task from
\* its next step; every task has its own attempt counter and last error,
\* makes at most max_retries + 1 attempts, and its outcome is decided by its
\* own transport outcomes alone.
C25_TasksAreIndependent ==
    \A t \in Tasks :
        /\ tasks[t].attempts <= AtLeastZero(tasks[t].max_retries + 1)
        /\ tasks[t].calls <= AtLeastZero(tasks[t].max_retries + 1)
        /\ tasks[t].calls >= Len(tasks[t].outcomes)
        /\ tasks[t].result = Replay(tasks[t].max_retries, tasks[t].outcomes, 0, NoneVal)
        /\ tasks[t].pc \in {"returned", "raised"} <=> tasks[t].result # NoResult
        /\ tasks[t].pc = "idle" => ENABLED TaskCall(t, 0)
        /\ tasks[t].pc = "waiting" =>
              ENABLED TaskTransportReturns(t, [choices |-> <<>>])
        /\ tasks[t].pc = "sleeping" => ENABLED TaskWake(t)

C25_Witness ==
    /\ tasks[1].pc = "sleeping"
    /\ tasks[1].attempts = 1
    /\ tasks[1].max_retries = 2
    /\ tasks[2].pc = "raised"
    /\ tasks[2].max_retries = 1
    /\ tasks[2].attempts = 2
    /\ tasks[2].calls = 2
    /\ tasks[2].outcomes = <<Raised("Timeout"), Raised("RateLimitError")>>
    /\ tasks[2].result.cause = "RateLimitError"

====
